---------------------------- MODULE Spec2Model ----------------------------
(***************************************************************************)
(* A model of the nonogram editor: the layout engine and cell addressing   *)
(* of src/src/utils/render_utils.py, the view transform and the gesture    *)
(* state of src/src/renderer.py, the puzzle of src/src/puzzle.py and the   *)
(* event handlers of src/src/main.py.                                      *)
(*                                                                         *)
(* Rectangles are records [x, y, w, h] of integers, as pygame.Rect keeps   *)
(* them.  Cell indices and coordinates are pairs; None is the empty tuple.  *)
(* Python's // and % are TLA+'s \div and % (both floor).                   *)
(***************************************************************************)
EXTENDS Integers, Sequences, FiniteSets, TLC

VARIABLES
    screen,                 \* the window: SCREEN_WIDTH, SCREEN_HEIGHT and the margins
    nrows, ncols,           \* Puzzle.nrows, Puzzle.ncols
    top_clues_nrows,        \* Puzzle.top_clues_nrows
    left_clues_ncols,       \* Puzzle.left_clues_ncols
    board,                  \* Puzzle.board
    top_clues_ticks,        \* Puzzle.top_clues_ticks
    cell_size,              \* Renderer.cell_size
    cell_size_zoom_amt,     \* Renderer.__cell_size_zoom_amt
    pan_delta,              \* Renderer.__pan_delta
    pan_orig_coord,         \* Renderer.__pan_orig_coord
    pan_orig_delta,         \* Renderer.__pan_orig_delta
    is_dragging,            \* Renderer.is_dragging
    draft_start_cell,       \* Renderer.draft_start_cell
    draft_end_cell,         \* Renderer.draft_end_cell
    draft_start_pt,         \* Renderer.draft_start_pt (written by end_draft only)
    draft_symbol,           \* Renderer.draft_symbol
    is_drafting,            \* Renderer.is_drafting
    toggle_clue_start_cell, \* Renderer.toggle_clue_start_cell
    toggle_clue_end_cell,   \* Renderer.toggle_clue_end_cell
    clue_tick_flag,         \* Renderer.clue_tick_flag
    is_toggling_top_clues,  \* Renderer.is_toggling_top_clues
    board_rect,             \* Renderer.board_rect (relative to parent_rect)
    top_clues_rect,         \* Renderer.top_clues_rect
    left_clues_rect,        \* Renderer.left_clues_rect
    parent_rect,            \* Renderer.parent_rect
    cell_rect_memo,         \* Renderer.__cell_rect_memo
    mouse_pos,              \* pygame.mouse.get_pos()
    mouse_pressed,          \* pygame.mouse.get_pressed(3)
    event,                  \* the event the loop dispatched last
    nevents,                \* the number of events dispatched so far
    call                    \* the last direct call of a function: [op, args, result]

puzzleVars == <<nrows, ncols, top_clues_nrows, left_clues_ncols, board, top_clues_ticks>>
zoomVars == <<cell_size, cell_size_zoom_amt>>
panVars == <<pan_delta, pan_orig_coord, pan_orig_delta, is_dragging>>
draftVars == <<draft_start_cell, draft_end_cell, draft_start_pt, draft_symbol, is_drafting>>
toggleVars == <<toggle_clue_start_cell, toggle_clue_end_cell, clue_tick_flag,
                is_toggling_top_clues>>
layoutVars == <<board_rect, top_clues_rect, left_clues_rect, parent_rect, cell_rect_memo>>
mouseVars == <<mouse_pos, mouse_pressed>>
rendererVars == <<zoomVars, panVars, draftVars, toggleVars, layoutVars>>
vars == <<screen, puzzleVars, rendererVars, mouseVars, event, nevents, call>>

None == <<>>

-----------------------------------------------------------------------------
(* Arithmetic helpers (Python built-ins). *)

Abs(n) == IF n < 0 THEN -n ELSE n

Min(a, b) == IF a < b THEN a ELSE b

Max(a, b) == IF a > b THEN a ELSE b

\* int(a / b) for b > 0: Python's int() truncates toward zero.
TruncDiv(a, b) == IF a >= 0 THEN a \div b ELSE -((-a) \div b)

Rect(x, y, w, h) == [x |-> x, y |-> y, w |-> w, h |-> h]

\* pygame.Rect.collidepoint: the right and bottom edges are outside.
collidepoint(r, px, py) == r.x <= px /\ px < r.x + r.w /\ r.y <= py /\ py < r.y + r.h

\* pygame.Rect.inflate_ip(dx, dy): the size grows by (dx, dy) around the centre;
\* the origin moves by the C quotient dx / 2 (truncated).
inflate(r, dx, dy) ==
    Rect(r.x - (IF dx >= 0 THEN dx \div 2 ELSE -((-dx) \div 2)),
         r.y - (IF dy >= 0 THEN dy \div 2 ELSE -((-dy) \div 2)),
         r.w + dx, r.h + dy)

\* pygame.Rect.center
center(r) == <<r.x + (r.w \div 2), r.y + (r.h \div 2)>>

-----------------------------------------------------------------------------
(* Renderer's border configuration. *)

cell_bdr == 1

outer_bdr == cell_bdr * 2

sep_bdr == cell_bdr * 2

MINIMUM_CELL_SIZE == 4

-----------------------------------------------------------------------------
(* Cell addressing: render_utils.get_cell_rect and screen_to_board_coords. *)

\* The offset of cell number idx along one axis.
cell_offset_no_borders(idx, size, bdr, sep) == (idx * size) + ((idx \div 5) * (sep - bdr))

cell_offset(idx, size, bdr, sep) ==
    (idx * size) + (idx * bdr) + ((idx \div 5) * (sep - bdr))

\* offset is the 4-tuple <<dx, dy, dw, dh>> (or None).
get_cell_rect(row, col, cell_width, cell_height, bdr, sep, offset) ==
    LET x == cell_offset(col, cell_width, bdr, sep)
        y == cell_offset(row, cell_height, bdr, sep)
        off == IF offset = None THEN <<0, 0, 0, 0>> ELSE offset
    IN  Rect(x + off[1], y + off[2], cell_width + off[3], cell_height + off[4])

sep_grp_width(size, bdr, sep) == ((size + bdr) * 5) + (sep - bdr)

\* A variant that truncates the quotient toward zero.
sep_grp_idx_truncated(board_c, w) == TruncDiv(board_c, w)

\* Lines 215-216: the separator group of a board-local coordinate; // floors.
sep_grp_idx(board_c, w) == board_c \div w

\* mod_x as line 219 computes it.
mod_x(board_x, size, bdr, sep) ==
    LET w == sep_grp_width(size, bdr, sep)
        grp == sep_grp_idx(board_x, w)
    IN  (Abs(board_x) - (grp * w)) * (IF board_x < 0 THEN -1 ELSE 1)

\* mod_y as line 220 computes it: the sign multiplies the product only.
mod_y(board_y, size, bdr, sep) ==
    LET w == sep_grp_width(size, bdr, sep)
        grp == sep_grp_idx(board_y, w)
    IN  Abs(board_y) - ((grp * w) * (IF board_y < 0 THEN -1 ELSE 1))

cell_idx_in_grp_unclamped(m, size, bdr) == m \div (size + bdr)

\* A variant whose cell boundaries sit a quarter of a cell early.
cell_idx_in_grp_shifted(m, size, bdr) == Min(4, (m + (size \div 4)) \div (size + bdr))

\* The index of the cell inside its separator group, clamped to the last one.
cell_idx_in_grp(m, size, bdr) == Min(4, m \div (size + bdr))

\* rect is the board rect on the screen with the outer border removed.
screen_to_board_coords(screen_x, screen_y, rect, size, bdr, sep) ==
    LET board_x == screen_x - rect.x
        board_y == screen_y - rect.y
        w == sep_grp_width(size, bdr, sep)
        sep_grp_idx_x == sep_grp_idx(board_x, w)
        sep_grp_idx_y == sep_grp_idx(board_y, w)
        cell_idx_x == cell_idx_in_grp(mod_x(board_x, size, bdr, sep), size, bdr)
        cell_idx_y == cell_idx_in_grp(mod_y(board_y, size, bdr, sep), size, bdr)
    IN  <<(sep_grp_idx_y * 5) + cell_idx_y, (sep_grp_idx_x * 5) + cell_idx_x>>

-----------------------------------------------------------------------------
(* The window.  src/constants.py is not among the sources: the window is a *)
(* record of the values render_utils reads from it, and the specifications *)
(* draw it from small sets.                                                *)

Screen(width, height, margin) ==
    [SCREEN_WIDTH |-> width, SCREEN_HEIGHT |-> height,
     SCREEN_HALF_WIDTH |-> width \div 2, SCREEN_HALF_HEIGHT |-> height \div 2,
     SCREEN_LEFT_MARGIN |-> margin, SCREEN_RIGHT_MARGIN |-> margin,
     SCREEN_TOP_MARGIN |-> margin, SCREEN_BOTTOM_MARGIN |-> margin]

-----------------------------------------------------------------------------
(* Layout engine: render_utils.calc_rects and calc_optimum_cell_size. *)

\* The borders of a board axis of n cells, the outer borders included.
board_border_thick_per_five(n, bdr, outer, sep) ==
    ((n - 1) * bdr) + (outer * 2) + ((n \div 5) * (sep - bdr))

board_border_thick(n, bdr, outer, sep) ==
    ((n - 1) * bdr) + (outer * 2) + (((n - 1) \div 5) * (sep - bdr))

\* The borders of a clues panel of n cells as calc_rects counts them.
clues_border_thick(n, bdr, outer) == ((n - 1) * bdr) + (outer * 2)

\* parent_w (parent_h) of calc_rects.
parent_extent_double_bdr(total_cell_size, total_border_thick, outer) ==
    total_cell_size + total_border_thick

parent_extent(total_cell_size, total_border_thick, outer) ==
    total_cell_size + total_border_thick - outer

\* pygame.Rect truncates the float half - (extent / 2) toward zero.
parent_origin(half, extent) == TruncDiv((2 * half) - extent, 2)

\* <<board_rect, top_clues_rect, left_clues_rect, parent_rect>>
\* constants is the window the module-level names of src.constants stand for.
calc_rects_on(constants, board_cell_size, top_clues_cell_height, left_clues_cell_width, bdr, outer, sep, board_nrows, board_ncols, top_nrows, left_ncols) ==
    LET board_border_thick_h == board_border_thick(board_ncols, bdr, outer, sep)
        board_border_thick_v == board_border_thick(board_nrows, bdr, outer, sep)
        top_clues_border_thick_v == clues_border_thick(top_nrows, bdr, outer)
        left_clues_border_thick_h == clues_border_thick(left_ncols, bdr, outer)
        total_border_thick_h == board_border_thick_h + left_clues_border_thick_h
        total_border_thick_v == board_border_thick_v + top_clues_border_thick_v
        board_cell_size_h == board_ncols * board_cell_size
        board_cell_size_v == board_nrows * board_cell_size
        top_clues_cell_size_v == top_nrows * top_clues_cell_height
        left_clues_cell_size_h == left_ncols * left_clues_cell_width
        total_cell_size_h == board_cell_size_h + left_clues_cell_size_h
        total_cell_size_v == board_cell_size_v + top_clues_cell_size_v
        parent_w == parent_extent(total_cell_size_h, total_border_thick_h, outer)
        parent_h == parent_extent(total_cell_size_v, total_border_thick_v, outer)
        parent_x == parent_origin(constants.SCREEN_HALF_WIDTH, parent_w)
        parent_y == parent_origin(constants.SCREEN_HALF_HEIGHT, parent_h)
        board_w == board_border_thick_h + board_cell_size_h
        board_h == board_border_thick_v + board_cell_size_v
        board_x == parent_w - board_w
        board_y == parent_h - board_h
        top_clues_h == top_clues_border_thick_v + top_clues_cell_size_v
        left_clues_w == left_clues_border_thick_h + left_clues_cell_size_h
    IN  <<Rect(board_x, board_y, board_w, board_h),
          Rect(board_x, 0, board_w, top_clues_h),
          Rect(0, board_y, left_clues_w, board_h),
          Rect(parent_x, parent_y, parent_w, parent_h)>>

calc_rects(board_cell_size, top_clues_cell_height, left_clues_cell_width, bdr, outer, sep, board_nrows, board_ncols, top_nrows, left_ncols) ==
    calc_rects_on(screen, board_cell_size, top_clues_cell_height, left_clues_cell_width,
                  bdr, outer, sep, board_nrows, board_ncols, top_nrows, left_ncols)

\* The borders of a clues panel of n cells as calc_optimum_cell_size counts them.
optimum_clues_border_thick(n, bdr, outer) == ((n - 1) * bdr) + outer

\* max(2, int(...)) of one candidate.
candidate_cell_size_unclamped(usable, total_border_thick, total_cells) ==
    TruncDiv(usable - total_border_thick, total_cells)

candidate_cell_size(usable, total_border_thick, total_cells) ==
    Max(2, TruncDiv(usable - total_border_thick, total_cells))

calc_optimum_cell_size_on(constants, board_nrows, board_ncols, bdr, outer, sep, top_nrows, left_ncols) ==
    LET total_nrows == board_nrows + top_nrows
        total_cols == board_ncols + left_ncols
        board_border_thick_h == board_border_thick(board_ncols, bdr, outer, sep)
        board_border_thick_v == board_border_thick(board_nrows, bdr, outer, sep)
        top_clues_border_thick_v == optimum_clues_border_thick(top_nrows, bdr, outer)
        left_clues_border_thick_h == optimum_clues_border_thick(left_ncols, bdr, outer)
        total_border_thick_h == board_border_thick_h + left_clues_border_thick_h
        total_border_thick_v == board_border_thick_v + top_clues_border_thick_v
        h_margins == constants.SCREEN_LEFT_MARGIN + constants.SCREEN_RIGHT_MARGIN
        v_margins == constants.SCREEN_TOP_MARGIN + constants.SCREEN_BOTTOM_MARGIN
        usable_width == constants.SCREEN_WIDTH - h_margins
        usable_height == constants.SCREEN_HEIGHT - v_margins
        cell_width == candidate_cell_size(usable_width, total_border_thick_h, total_cols)
        cell_height == candidate_cell_size(usable_height, total_border_thick_v, total_nrows)
    IN  Min(cell_width, cell_height)

calc_optimum_cell_size(board_nrows, board_ncols, bdr, outer, sep, top_nrows, left_ncols) ==
    calc_optimum_cell_size_on(screen, board_nrows, board_ncols, bdr, outer, sep,
                              top_nrows, left_ncols)

-----------------------------------------------------------------------------
(* Puzzle. *)

Symbols == {" ", ".", "x"}

Cells(nr, nc) == (0 .. nr - 1) \X (0 .. nc - 1)

\* Puzzle.is_board_cell_idx_valid (called by main.py, absent from puzzle.py).
is_board_cell_idx_valid(row, col) == 0 <= row /\ row < nrows /\ 0 <= col /\ col < ncols

\* Puzzle.is_top_clues_cell_idx_valid (called by main.py, absent from puzzle.py).
is_top_clues_cell_idx_valid(row, col) ==
    0 <= row /\ row < top_clues_nrows /\ 0 <= col /\ col < ncols

-----------------------------------------------------------------------------
(* Renderer: rect getters and cell addressing. *)

\* A variant that leaves the pan delta out.
get_actual_board_rect_unpanned ==
    Rect(parent_rect.x + board_rect.x, parent_rect.y + board_rect.y, board_rect.w, board_rect.h)

get_actual_board_rect ==
    Rect(parent_rect.x + board_rect.x + pan_delta[1],
         parent_rect.y + board_rect.y + pan_delta[2],
         board_rect.w, board_rect.h)

\* Renderer.get_actual_top_clues_rect (called by main.py, absent from renderer.py):
\* the rect render() blits the top clues surface to.
get_actual_top_clues_rect ==
    Rect(get_actual_board_rect.x,
         parent_rect.y + top_clues_rect.y + pan_delta[2],
         top_clues_rect.w, top_clues_rect.h)

\* The rect of a cell under cell size size, relative to the board surface.
board_cell_rect(row_idx, col_idx, size) ==
    get_cell_rect(row_idx, col_idx, size, size, cell_bdr, sep_bdr,
                  <<outer_bdr, outer_bdr, 0, 0>>)

\* Renderer.get_board_cell_rect: <<the rect returned, the memo afterwards>>.
get_board_cell_rect(memo, row_idx, col_idx, size) ==
    IF <<row_idx, col_idx>> \in DOMAIN memo
    THEN <<memo[<<row_idx, col_idx>>], memo>>
    ELSE LET cell_rect == board_cell_rect(row_idx, col_idx, size)
         IN  <<cell_rect,
               [k \in DOMAIN memo \cup {<<row_idx, col_idx>>} |->
                   IF k \in DOMAIN memo THEN memo[k] ELSE cell_rect]>>

\* The memo after get_board_cell_rect was called for every cell of keys
\* (update_symbols asks for the rect of each cell it draws).
memo_after(memo, keys, size) ==
    [k \in DOMAIN memo \cup keys |->
        get_board_cell_rect(memo, k[1], k[2], size)[1]]

\* The board rect with the outer borders removed, as screen_coord_to_cell_idx
\* hands it to render_utils.
stripped_board_rect == inflate(get_actual_board_rect, outer_bdr * (-2), outer_bdr * (-2))

\* Renderer.screen_coord_to_cell_idx.  It calls utils.screen_coord_to_cell_idx;
\* render_utils defines the inverse mapping under the name screen_to_board_coords.
screen_coord_to_cell_idx(screen_x, screen_y) ==
    screen_to_board_coords(screen_x, screen_y, stripped_board_rect,
                           cell_size, cell_bdr, sep_bdr)

\* Renderer.screen_coord_to_top_clues_idx (called by main.py, absent from
\* renderer.py): the inverse mapping on the top clues panel, whose rows have
\* no separators.
screen_coord_to_top_clues_idx(screen_x, screen_y) ==
    LET rect == inflate(get_actual_top_clues_rect, outer_bdr * (-2), outer_bdr * (-2))
        idx == screen_to_board_coords(screen_x, screen_y, rect, cell_size, cell_bdr, sep_bdr)
    IN  <<(screen_y - rect.y) \div (cell_size + cell_bdr), idx[2]>>

\* The cells from a to b inclusive along one line, in ascending order.
run_cells_start_only(a, b) == <<a>>

run_cells(a, b) ==
    IF a[2] = b[2]
    THEN [i \in 1 .. (Max(a[1], b[1]) - Min(a[1], b[1]) + 1) |->
             <<Min(a[1], b[1]) + i - 1, a[2]>>]
    ELSE IF a[1] = b[1]
    THEN [i \in 1 .. (Max(a[2], b[2]) - Min(a[2], b[2]) + 1) |->
             <<a[1], Min(a[2], b[2]) + i - 1>>]
    ELSE <<>>

\* A variant that yields the start cell when the two cells are not aligned.
get_draft_cell_indices_start_on_error ==
    IF ~is_drafting THEN <<>>
    ELSE IF draft_start_cell = None \/ draft_end_cell = None THEN <<>>
    ELSE IF draft_start_cell[1] # draft_end_cell[1] /\ draft_start_cell[2] # draft_end_cell[2]
    THEN <<draft_start_cell>>
    ELSE run_cells(draft_start_cell, draft_end_cell)

\* Renderer.get_draft_cell_indices
get_draft_cell_indices ==
    IF ~is_drafting THEN <<>>
    ELSE IF draft_start_cell = None \/ draft_end_cell = None THEN <<>>
    ELSE run_cells(draft_start_cell, draft_end_cell)

\* Renderer.get_draft_start_ortho_cells
get_draft_start_ortho_cells ==
    IF ~is_drafting THEN {}
    ELSE IF draft_start_cell = None \/ draft_end_cell = None THEN {}
    ELSE {<<r, draft_start_cell[2]>> : r \in 0 .. nrows - 1}
         \cup {<<draft_start_cell[1], c>> : c \in 0 .. ncols - 1}

Range(seq) == {seq[i] : i \in DOMAIN seq}

-----------------------------------------------------------------------------
(* Renderer: zoom and layout. *)

\* Renderer.zoom: the amount added to the zoom amount.
zoom_value(value) == IF value % 2 = 0 THEN value ELSE value - 1

\* Renderer.zoom
zoom(value) == cell_size_zoom_amt' = cell_size_zoom_amt + zoom_value(value)

\* The clamp of the zoom amount in initialize_surfaces.
clamp_zoom_amt_unclamped(optimum_cell_size, zoom_amt) == zoom_amt

clamp_zoom_amt(optimum_cell_size, zoom_amt) ==
    Max(MINIMUM_CELL_SIZE - optimum_cell_size, zoom_amt)

\* A variant that clamps the cell size and keeps the zoom amount as given.
stored_zoom_amt_as_given(clamped_zoom_amt, zoom_amt) == zoom_amt

\* initialize_surfaces line 160: the clamped amount is stored back in
\* self.__cell_size_zoom_amt.
stored_zoom_amt(clamped_zoom_amt, zoom_amt) == clamped_zoom_amt

\* A variant that makes an odd cell size even by incrementing.
even_cell_size_incrementing(size) == IF size % 2 = 0 THEN size ELSE size + 1

\* "Ensure that cell_size is EVEN."
even_cell_size(size) == IF size % 2 = 0 THEN size ELSE size - 1

\* What Renderer.initialize_surfaces computes for puzzle p in window constants
\* when entered with zoom amount zoom_amt.  It ends with update_clues() and
\* update_symbols(), which ask for every cell's rect.
surfaces_on(constants, p, zoom_amt) ==
    LET optimum_cell_size ==
            calc_optimum_cell_size_on(constants, p.nrows, p.ncols, cell_bdr, outer_bdr,
                                      sep_bdr, p.top_clues_nrows, p.left_clues_ncols)
        new_zoom_amt == clamp_zoom_amt(optimum_cell_size, zoom_amt)
        cellsz == even_cell_size(optimum_cell_size + new_zoom_amt)
        rects == calc_rects_on(constants, cellsz, cellsz, cellsz, cell_bdr, outer_bdr,
                               sep_bdr, p.nrows, p.ncols, p.top_clues_nrows,
                               p.left_clues_ncols)
    IN  [cell_size_zoom_amt |-> stored_zoom_amt(new_zoom_amt, zoom_amt),
         cell_size |-> cellsz,
         board_rect |-> rects[1],
         top_clues_rect |-> rects[2],
         left_clues_rect |-> rects[3],
         parent_rect |-> rects[4],
         cell_rect_memo |-> memo_after(<<>>, Cells(p.nrows, p.ncols), cellsz)]

surfaces(zoom_amt) ==
    surfaces_on(screen,
                [nrows |-> nrows, ncols |-> ncols, top_clues_nrows |-> top_clues_nrows,
                 left_clues_ncols |-> left_clues_ncols],
                zoom_amt)

\* A variant that keeps the rects memoised so far.
cleared_memo_kept(memo) == memo

\* initialize_surfaces line 152: self.__cell_rect_memo = {}
cleared_memo(memo) == <<>>

\* Renderer.initialize_surfaces
initialize_surfaces(zoom_amt) ==
    LET s == surfaces(zoom_amt)
    IN  /\ cell_size_zoom_amt' = s.cell_size_zoom_amt
        /\ cell_size' = s.cell_size
        /\ board_rect' = s.board_rect
        /\ top_clues_rect' = s.top_clues_rect
        /\ left_clues_rect' = s.left_clues_rect
        /\ parent_rect' = s.parent_rect
        /\ cell_rect_memo' = memo_after(cleared_memo(cell_rect_memo), Cells(nrows, ncols), s.cell_size)

-----------------------------------------------------------------------------
(* Renderer: the pan gesture. *)

\* Coord.move with a tuple amount
move(coord, amount) == <<coord[1] + amount[1], coord[2] + amount[2]>>

start_drag_from_origin(curr_x, curr_y) ==
    /\ pan_orig_coord' = <<curr_x, curr_y>>
    /\ pan_orig_delta' = <<0, 0>>
    /\ is_dragging' = TRUE
    /\ UNCHANGED pan_delta

start_drag(curr_x, curr_y) ==
    /\ pan_orig_coord' = <<curr_x, curr_y>>
    /\ pan_orig_delta' = pan_delta
    /\ is_dragging' = TRUE
    /\ UNCHANGED pan_delta

update_drag(curr_x, curr_y) ==
    /\ pan_delta' = move(pan_orig_delta,
                         <<curr_x - pan_orig_coord[1], curr_y - pan_orig_coord[2]>>)
    /\ UNCHANGED <<pan_orig_coord, pan_orig_delta, is_dragging>>

end_drag ==
    /\ pan_orig_coord' = None
    /\ pan_orig_delta' = None
    /\ is_dragging' = FALSE
    /\ UNCHANGED pan_delta

-----------------------------------------------------------------------------
(* Renderer: the draft gesture. *)

start_draft(row_idx, col_idx, symbol) ==
    /\ draft_start_cell' = <<row_idx, col_idx>>
    /\ draft_end_cell' = <<row_idx, col_idx>>
    /\ draft_symbol' = symbol
    /\ is_drafting' = TRUE
    /\ UNCHANGED draft_start_pt

\* Renderer.update_draft: the new draft_end_cell.
draft_end_unprojected(start, row_idx, col_idx) == <<row_idx, col_idx>>

draft_end_vertical_ties(start, row_idx, col_idx) ==
    IF Abs(start[2] - col_idx) > Abs(start[1] - row_idx)
    THEN <<start[1], col_idx>>
    ELSE <<row_idx, start[2]>>

draft_end(start, row_idx, col_idx) ==
    LET vertical_len == Abs(start[1] - row_idx)
        horizontal_len == Abs(start[2] - col_idx)
    IN  IF horizontal_len >= vertical_len
        THEN <<start[1], col_idx>>
        ELSE <<row_idx, start[2]>>

update_draft(row_idx, col_idx) ==
    /\ draft_end_cell' = draft_end(draft_start_cell, row_idx, col_idx)
    /\ UNCHANGED <<draft_start_cell, draft_start_pt, draft_symbol, is_drafting>>

\* Renderer.end_draft.  It assigns draft_start_pt, not draft_start_cell.
end_draft_keeps_drafting ==
    /\ draft_start_pt' = "None"
    /\ draft_symbol' = " "
    /\ UNCHANGED <<is_drafting, draft_start_cell, draft_end_cell>>

end_draft ==
    /\ draft_start_pt' = "None"
    /\ draft_symbol' = " "
    /\ is_drafting' = FALSE
    /\ UNCHANGED <<draft_start_cell, draft_end_cell>>

-----------------------------------------------------------------------------
(* Renderer: the top clues toggling gesture.  main.py calls these methods; *)
(* renderer.py does not define them, and they mirror the draft gesture.    *)

start_top_clue_toggling(row_idx, col_idx, tick_flag) ==
    /\ toggle_clue_start_cell' = <<row_idx, col_idx>>
    /\ toggle_clue_end_cell' = <<row_idx, col_idx>>
    /\ clue_tick_flag' = tick_flag
    /\ is_toggling_top_clues' = TRUE

update_clue_toggling(row_idx, col_idx) ==
    /\ toggle_clue_end_cell' = draft_end(toggle_clue_start_cell, row_idx, col_idx)
    /\ UNCHANGED <<toggle_clue_start_cell, clue_tick_flag, is_toggling_top_clues>>

get_clues_toggle_cell_indices ==
    IF ~is_toggling_top_clues THEN <<>>
    ELSE IF toggle_clue_start_cell = None \/ toggle_clue_end_cell = None THEN <<>>
    ELSE run_cells(toggle_clue_start_cell, toggle_clue_end_cell)

end_clue_toggling ==
    /\ toggle_clue_start_cell' = None
    /\ toggle_clue_end_cell' = None
    /\ is_toggling_top_clues' = FALSE
    /\ UNCHANGED clue_tick_flag

-----------------------------------------------------------------------------
(* main.py: the event handlers.  pressed is pygame.mouse.get_pressed(3) and *)
(* pos is pygame.mouse.get_pos() as the handler reads them.                 *)

\* A variant whose successor of Filled is a symbol outside the three.
next_symbol_unknown(curr_symbol) ==
    CASE curr_symbol = " " -> "."
      [] curr_symbol = "." -> "?"
      [] curr_symbol = "x" -> " "

\* The symbol a press on a cell holding curr_symbol drafts.
next_symbol(curr_symbol) ==
    CASE curr_symbol = " " -> "."
      [] curr_symbol = "." -> "x"
      [] curr_symbol = "x" -> " "

\* The board after the draft cells were assigned the draft symbol.
commit_draft(cells, symbol) ==
    [c \in DOMAIN board |-> IF c \in Range(cells) THEN symbol ELSE board[c]]

\* A variant that flips each clue cell of the run on its own.
commit_ticks_toggle_each(cells, flag) ==
    [c \in DOMAIN top_clues_ticks |->
        IF c \in Range(cells) THEN ~top_clues_ticks[c] ELSE top_clues_ticks[c]]

\* handle_mouse_up: every clue cell of the toggle run is set to the one flag.
commit_ticks(cells, flag) ==
    [c \in DOMAIN top_clues_ticks |->
        IF c \in Range(cells) THEN flag ELSE top_clues_ticks[c]]

handle_mouse_down(pressed, pos) ==
    /\ IF pressed.lmb /\ pressed.rmb
       THEN end_draft /\ UNCHANGED <<toggleVars, panVars>>
       ELSE IF pressed.lmb
       THEN IF collidepoint(get_actual_board_rect, pos[1], pos[2])
            THEN LET idx == screen_coord_to_cell_idx(pos[1], pos[2])
                 IN  IF is_board_cell_idx_valid(idx[1], idx[2])
                     THEN /\ start_draft(idx[1], idx[2], next_symbol(board[idx]))
                          /\ UNCHANGED <<toggleVars, panVars>>
                     ELSE UNCHANGED <<draftVars, toggleVars, panVars>>
            ELSE IF collidepoint(get_actual_top_clues_rect, pos[1], pos[2])
            THEN LET idx == screen_coord_to_top_clues_idx(pos[1], pos[2])
                 IN  IF is_top_clues_cell_idx_valid(idx[1], idx[2])
                     THEN /\ start_top_clue_toggling(idx[1], idx[2], ~top_clues_ticks[idx])
                          /\ UNCHANGED <<draftVars, panVars>>
                     ELSE UNCHANGED <<draftVars, toggleVars, panVars>>
            ELSE UNCHANGED <<draftVars, toggleVars, panVars>>
       ELSE IF pressed.mmb
       THEN start_drag(pos[1], pos[2]) /\ UNCHANGED <<draftVars, toggleVars>>
       ELSE UNCHANGED <<draftVars, toggleVars, panVars>>
    \* renderer.update_symbols()
    /\ cell_rect_memo' = memo_after(cell_rect_memo, Cells(nrows, ncols), cell_size)
    /\ UNCHANGED <<puzzleVars, zoomVars, board_rect, top_clues_rect, left_clues_rect,
                   parent_rect>>

\* handle_mouse_up: "if not is_lmb: if renderer.is_drafting:".
release_commits_any_button(pressed) == is_drafting

release_commits(pressed) == ~pressed.lmb /\ is_drafting

handle_mouse_up(pressed) ==
    /\ IF release_commits(pressed)
       THEN /\ board' = commit_draft(get_draft_cell_indices, draft_symbol)
            /\ end_draft
       ELSE UNCHANGED <<board, draftVars>>
    /\ IF ~pressed.lmb /\ is_toggling_top_clues
       THEN /\ top_clues_ticks' = commit_ticks(get_clues_toggle_cell_indices, clue_tick_flag)
            /\ end_clue_toggling
       ELSE UNCHANGED <<top_clues_ticks, toggleVars>>
    /\ IF ~pressed.mmb THEN end_drag ELSE UNCHANGED panVars
    \* renderer.update_symbols()
    /\ cell_rect_memo' = memo_after(cell_rect_memo, Cells(nrows, ncols), cell_size)
    /\ UNCHANGED <<nrows, ncols, top_clues_nrows, left_clues_ncols, zoomVars,
                   board_rect, top_clues_rect, left_clues_rect, parent_rect>>

\* A variant that lets every pointer position update the draft.
move_updates_draft_always(idx) == TRUE

\* handle_mouse_move line 149: only a valid cell index updates the draft.
move_updates_draft(idx) == is_board_cell_idx_valid(idx[1], idx[2])

handle_mouse_move(pressed, pos) ==
    /\ IF pressed.lmb /\ is_drafting
       THEN LET idx == screen_coord_to_cell_idx(pos[1], pos[2])
            IN  IF move_updates_draft(idx)
                THEN /\ update_draft(idx[1], idx[2])
                     \* renderer.update_symbols(mode='draft')
                     /\ cell_rect_memo' =
                            memo_after(cell_rect_memo,
                                       get_draft_start_ortho_cells
                                           \cup Range(run_cells(draft_start_cell,
                                                                draft_end_cell')),
                                       cell_size)
                ELSE UNCHANGED <<draftVars, cell_rect_memo>>
       ELSE UNCHANGED <<draftVars, cell_rect_memo>>
    /\ IF pressed.lmb /\ is_toggling_top_clues
       THEN LET idx == screen_coord_to_top_clues_idx(pos[1], pos[2])
            IN  IF is_top_clues_cell_idx_valid(idx[1], idx[2])
                THEN update_clue_toggling(idx[1], idx[2])
                ELSE UNCHANGED toggleVars
       ELSE UNCHANGED toggleVars
    /\ IF pressed.mmb /\ is_dragging
       THEN update_drag(pos[1], pos[2])
       ELSE UNCHANGED panVars
    /\ UNCHANGED <<puzzleVars, zoomVars, board_rect, top_clues_rect, left_clues_rect,
                   parent_rect>>

\* y is event.y and ctrl is pygame.key.get_mods() & pygame.KMOD_CTRL.
wheel_value(y, ctrl) ==
    LET value == IF ctrl THEN 6 ELSE 2
    IN  IF y > 0 THEN value ELSE IF y < 0 THEN -value ELSE 0

handle_mouse_wheel(y, ctrl) ==
    /\ initialize_surfaces(IF y = 0 THEN cell_size_zoom_amt
                           ELSE cell_size_zoom_amt + zoom_value(wheel_value(y, ctrl)))
    /\ UNCHANGED <<puzzleVars, panVars, draftVars, toggleVars>>

-----------------------------------------------------------------------------
(* The bounds of the model. *)

\* The events one run dispatches.
MaxEvents == 5

\* The largest zoom amount the wheel is turned to.
MaxZoomAmt == 4

-----------------------------------------------------------------------------
(* The editor: the event loop of main() over one puzzle. *)

\* The puzzle the editor opens: a 2 x 3 board with one row of top clues and
\* one column of left clues, in a 40 x 32 window.
EditorScreen == Screen(40, 32, 2)

EditorPuzzle == [nrows |-> 2, ncols |-> 3, top_clues_nrows |-> 1, left_clues_ncols |-> 1]

\* Puzzle.__init__ and Renderer.__init__ followed by initialize_puzzle.
InitPuzzle(p) ==
    /\ nrows = p.nrows
    /\ ncols = p.ncols
    /\ top_clues_nrows = p.top_clues_nrows
    /\ left_clues_ncols = p.left_clues_ncols
    /\ board = [c \in Cells(p.nrows, p.ncols) |-> " "]
    /\ top_clues_ticks = [c \in Cells(p.top_clues_nrows, p.ncols) |-> FALSE]

InitRenderer ==
    /\ pan_delta = <<0, 0>>
    /\ pan_orig_coord = None
    /\ pan_orig_delta = None
    /\ is_dragging = FALSE
    /\ draft_start_cell = None
    /\ draft_end_cell = None
    /\ draft_start_pt = "unset"
    /\ draft_symbol = "."
    /\ is_drafting = FALSE
    /\ toggle_clue_start_cell = None
    /\ toggle_clue_end_cell = None
    /\ clue_tick_flag = TRUE
    /\ is_toggling_top_clues = FALSE
    /\ LET s == surfaces(0)
       IN  /\ cell_size_zoom_amt = s.cell_size_zoom_amt
           /\ cell_size = s.cell_size
           /\ board_rect = s.board_rect
           /\ top_clues_rect = s.top_clues_rect
           /\ left_clues_rect = s.left_clues_rect
           /\ parent_rect = s.parent_rect
           /\ cell_rect_memo = s.cell_rect_memo

NoButtons == [lmb |-> FALSE, mmb |-> FALSE, rmb |-> FALSE]

NoEvent == [type |-> "NONE", arg |-> <<>>]

NoCall == [op |-> "none", args |-> <<>>, result |-> <<>>]

\* The pointer positions the runs visit: the centre of every board cell and of
\* every top clue cell as first laid out, and the two corners of the window.
EditorSurfaces == surfaces_on(EditorScreen, EditorPuzzle, 0)

PointOfCell(row, col) ==
    LET r == board_cell_rect(row, col, EditorSurfaces.cell_size)
    IN  <<EditorSurfaces.parent_rect.x + EditorSurfaces.board_rect.x + center(r)[1],
          EditorSurfaces.parent_rect.y + EditorSurfaces.board_rect.y + center(r)[2]>>

PointOfTopClue(row, col) ==
    <<PointOfCell(0, col)[1],
      EditorSurfaces.parent_rect.y + EditorSurfaces.top_clues_rect.y + outer_bdr
          + (row * (EditorSurfaces.cell_size + cell_bdr))
          + (EditorSurfaces.cell_size \div 2)>>

Points ==
    {PointOfCell(c[1], c[2]) : c \in Cells(EditorPuzzle.nrows, EditorPuzzle.ncols)}
        \cup {PointOfTopClue(c[1], c[2]) :
                 c \in Cells(EditorPuzzle.top_clues_nrows, EditorPuzzle.ncols)}
        \cup {<<0, 0>>,
              <<EditorScreen.SCREEN_WIDTH - 1, EditorScreen.SCREEN_HEIGHT - 1>>}

Init ==
    /\ screen = EditorScreen
    /\ InitPuzzle(EditorPuzzle)
    /\ InitRenderer
    /\ mouse_pos = PointOfCell(0, 0)
    /\ mouse_pressed = NoButtons
    /\ event = NoEvent
    /\ nevents = 0
    /\ call = NoCall

Buttons == {"lmb", "mmb", "rmb"}

\* main(): one pass of the event loop dispatches one event to its handler.
MouseButtonDown(b) ==
    /\ nevents < MaxEvents
    /\ ~mouse_pressed[b]
    /\ mouse_pressed' = [mouse_pressed EXCEPT ![b] = TRUE]
    /\ mouse_pos' = mouse_pos
    /\ event' = [type |-> "MOUSEBUTTONDOWN", arg |-> <<b>>]
    /\ handle_mouse_down(mouse_pressed', mouse_pos)
    /\ nevents' = nevents + 1
    /\ UNCHANGED <<screen, call>>

MouseButtonUp(b) ==
    /\ nevents < MaxEvents
    /\ mouse_pressed[b]
    /\ mouse_pressed' = [mouse_pressed EXCEPT ![b] = FALSE]
    /\ mouse_pos' = mouse_pos
    /\ event' = [type |-> "MOUSEBUTTONUP", arg |-> <<b>>]
    /\ handle_mouse_up(mouse_pressed')
    /\ nevents' = nevents + 1
    /\ UNCHANGED <<screen, call>>

MouseMotion(p) ==
    /\ nevents < MaxEvents
    /\ p # mouse_pos
    /\ mouse_pos' = p
    /\ mouse_pressed' = mouse_pressed
    /\ event' = [type |-> "MOUSEMOTION", arg |-> p]
    /\ handle_mouse_move(mouse_pressed, p)
    /\ nevents' = nevents + 1
    /\ UNCHANGED <<screen, call>>

MouseWheel(y, ctrl) ==
    /\ nevents < MaxEvents
    /\ cell_size_zoom_amt + wheel_value(y, ctrl) <= MaxZoomAmt
    /\ event' = [type |-> "MOUSEWHEEL", arg |-> <<y, ctrl>>]
    /\ handle_mouse_wheel(y, ctrl)
    /\ nevents' = nevents + 1
    /\ UNCHANGED <<screen, mouseVars, call>>

Next ==
    \/ \E b \in Buttons : MouseButtonDown(b)
    \/ \E b \in Buttons : MouseButtonUp(b)
    \/ \E p \in Points : MouseMotion(p)
    \/ \E y \in {-1, 0, 1}, ctrl \in BOOLEAN : MouseWheel(y, ctrl)

Spec == Init /\ [][Next]_vars

-----------------------------------------------------------------------------
(* Cell addressing called directly: get_cell_rect with the offset that     *)
(* Renderer.get_board_cell_rect passes, and screen_to_board_coords with the *)
(* board rect that Renderer.screen_coord_to_cell_idx passes, for a board    *)
(* whose surface is at origin on the screen.  A run makes one call, and may *)
(* feed the centre of a rect it got to the inverse mapping.                 *)

\* The largest row and column index asked for.
GeomMaxIdx == 11

\* The separator groups the probed pixels cover on the positive side.
GeomGroups == 2

GeomCellSizes == {4, 6, 20, 41}

GeomOrigins == {<<0, 0>>, <<-9, 13>>}

\* The board surface's rect on the screen for cells 0 .. GeomMaxIdx.
GeomBoardRect(origin, size) ==
    LET extent == board_border_thick(GeomMaxIdx + 1, cell_bdr, outer_bdr, sep_bdr)
                      + ((GeomMaxIdx + 1) * size)
    IN  Rect(origin[1], origin[2], extent, extent)

GeomStrippedRect(origin, size) ==
    inflate(GeomBoardRect(origin, size), outer_bdr * (-2), outer_bdr * (-2))

\* The offsets from the stripped rect's corner that are probed: one group to
\* the left of it and GeomGroups groups to the right.
GeomOffsets(size) ==
    (-(sep_grp_width(size, cell_bdr, sep_bdr)) - 1)
        .. ((GeomGroups * sep_grp_width(size, cell_bdr, sep_bdr)) + 1)

CallGetCellRect(row, col, size) ==
    /\ call' = [op |-> "get_cell_rect",
                args |-> <<row, col, size>>,
                result |-> board_cell_rect(row, col, size)]
    /\ UNCHANGED <<screen, puzzleVars, rendererVars, mouseVars, event, nevents>>

\* args: <<screen_x, screen_y, rect.x, rect.y, cell_size>>; result: <<row, col>>
CallScreenToBoardCoords(bx, by, origin, size) ==
    LET rect == GeomStrippedRect(origin, size)
    IN  /\ call' = [op |-> "screen_to_board_coords",
                    args |-> <<rect.x + bx, rect.y + by, rect.x, rect.y, size>>,
                    result |-> screen_to_board_coords(rect.x + bx, rect.y + by, rect,
                                                      size, cell_bdr, sep_bdr)]
        /\ UNCHANGED <<screen, puzzleVars, rendererVars, mouseVars, event, nevents>>

\* The centre of the rect the last call returned, moved to the screen, is fed
\* to the inverse mapping.  args: <<row, col, cell_size, screen_x, screen_y>>
CallCenterToBoardCoords(origin) ==
    /\ call.op = "get_cell_rect"
    /\ LET size == call.args[3]
           pt == move(center(call.result), origin)
       IN  call' = [op |-> "center_to_board_coords",
                    args |-> <<call.args[1], call.args[2], size, pt[1], pt[2]>>,
                    result |-> screen_to_board_coords(pt[1], pt[2],
                                                      GeomStrippedRect(origin, size),
                                                      size, cell_bdr, sep_bdr)]
    /\ UNCHANGED <<screen, puzzleVars, rendererVars, mouseVars, event, nevents>>

\* The pixels of a cell that are probed, as offsets from its corner on either
\* axis: all of them at the small sizes, the edges and the middle otherwise.
PixelOffsets(size) ==
    IF size <= 6 THEN 0 .. (size - 1) ELSE {0, 1, size \div 2, size - 2, size - 1}

\* The pixel (dx, dy) of the rect the last call returned, moved to the screen,
\* is fed to the inverse mapping.
\* args: <<row, col, cell_size, screen_x, screen_y, rect.x, rect.y>>
CallPixelToBoardCoords(origin, dx, dy) ==
    /\ call.op = "get_cell_rect"
    /\ LET size == call.args[3]
           pt == move(<<call.result.x + dx, call.result.y + dy>>, origin)
           rect == GeomStrippedRect(origin, size)
       IN  call' = [op |-> "pixel_to_board_coords",
                    args |-> <<call.args[1], call.args[2], size, pt[1], pt[2], rect.x, rect.y>>,
                    result |-> screen_to_board_coords(pt[1], pt[2], rect, size, cell_bdr,
                                                      sep_bdr)]
    /\ UNCHANGED <<screen, puzzleVars, rendererVars, mouseVars, event, nevents>>

InitGeom ==
    /\ screen = EditorScreen
    /\ InitPuzzle(EditorPuzzle)
    /\ InitRenderer
    /\ mouse_pos = <<0, 0>>
    /\ mouse_pressed = NoButtons
    /\ event = NoEvent
    /\ nevents = 0
    /\ call = NoCall

\* One direct call, with every argument the bounds allow.
GetCellRectCall ==
    /\ call.op = "none"
    /\ \E row \in 0 .. GeomMaxIdx, col \in 0 .. GeomMaxIdx, size \in GeomCellSizes :
           CallGetCellRect(row, col, size)

ScreenToBoardCoordsCall ==
    /\ call.op = "none"
    /\ \E size \in GeomCellSizes, origin \in GeomOrigins :
           \E bx \in GeomOffsets(size) : \E by \in {bx, -1, 0} :
               CallScreenToBoardCoords(bx, by, origin, size)

CenterToBoardCoordsCall == \E origin \in GeomOrigins : CallCenterToBoardCoords(origin)

PixelToBoardCoordsCall ==
    /\ call.op = "get_cell_rect"
    /\ \E origin \in GeomOrigins :
           \E dx \in PixelOffsets(call.args[3]), dy \in PixelOffsets(call.args[3]) :
               CallPixelToBoardCoords(origin, dx, dy)

NextGeom ==
    \/ GetCellRectCall
    \/ ScreenToBoardCoordsCall
    \/ CenterToBoardCoordsCall
    \/ PixelToBoardCoordsCall

SpecGeom == InitGeom /\ [][NextGeom]_vars

(* C1: the centre of get_cell_rect(row, col), fed to the inverse mapping   *)
(* with the board rect's outer border stripped, gives (row, col) back, for  *)
(* every cell and every cell size of 4, 6, 20 and 41.                       *)
C1_RoundTrip ==
    call.op = "center_to_board_coords"
        => call.result = <<call.args[1], call.args[2]>>

C1_Witness ==
    /\ call.op = "center_to_board_coords"
    /\ call.args[1] = 7
    /\ call.args[2] = GeomMaxIdx
    /\ call.args[3] = 41
    /\ call.result = <<7, GeomMaxIdx>>

(* C2: one pixel left of the cell area (board-local x = -1) the inverse    *)
(* mapping returns column -1.                                               *)
C2_FloorAtMinusOne ==
    (call.op = "screen_to_board_coords" /\ call.args[1] - call.args[3] = -1)
        => call.result[2] = -1

\* The offset t lies between the end of cell 5g + 4 and the start of cell
\* 5g + 5, as get_cell_rect places them.
InSepGap(t, g, size) ==
    /\ cell_offset(5 * g + 4, size, cell_bdr, sep_bdr) + size <= t
    /\ t < cell_offset(5 * g + 5, size, cell_bdr, sep_bdr)

(* C3: a coordinate inside the separator gap after group g >= 0 resolves   *)
(* to index 5g + 4, the last cell of group g, on either axis.               *)
C3_SeparatorClamp ==
    call.op = "screen_to_board_coords" =>
        \A g \in 0 .. (GeomGroups - 1) :
            /\ InSepGap(call.args[1] - call.args[3], g, call.args[5])
                   => call.result[2] = 5 * g + 4
            /\ InSepGap(call.args[2] - call.args[4], g, call.args[5])
                   => call.result[1] = 5 * g + 4

C3_Witness ==
    /\ call.op = "screen_to_board_coords"
    /\ InSepGap(call.args[1] - call.args[3], 1, call.args[5])
    /\ InSepGap(call.args[2] - call.args[4], 1, call.args[5])
    /\ ~InSepGap(call.args[1] - call.args[3] - 1, 1, call.args[5])
    /\ call.result = <<9, 9>>

-----------------------------------------------------------------------------
(* The layout engine called directly: calc_rects for boards and clue panels *)
(* of every size the bounds allow.                                           *)

\* The largest number of board rows and of board columns.
LayoutMaxCells == 11

\* The largest number of top clue rows and of left clue columns.
LayoutMaxClues == 3

LayoutCellSizes == {4, 7}

\* args: <<board_cell_size, top_clues_cell_height, left_clues_cell_width,
\*         board_nrows, board_ncols, top_clues_nrows, left_clues_ncols>>
\* result: <<board_rect, top_clues_rect, left_clues_rect, parent_rect>>
CallCalcRects(size, top_h, left_w, nr, nc, top, left) ==
    /\ call' = [op |-> "calc_rects",
                args |-> <<size, top_h, left_w, nr, nc, top, left>>,
                result |-> calc_rects(size, top_h, left_w, cell_bdr, outer_bdr, sep_bdr,
                                      nr, nc, top, left)]
    /\ UNCHANGED <<screen, puzzleVars, rendererVars, mouseVars, event, nevents>>

CalcRectsCall ==
    /\ call.op = "none"
    /\ \E size \in LayoutCellSizes, top_h \in LayoutCellSizes, left_w \in LayoutCellSizes :
           \E nr \in 1 .. LayoutMaxCells, nc \in 1 .. LayoutMaxCells :
               \E top \in 0 .. LayoutMaxClues, left \in 0 .. LayoutMaxClues :
                   CallCalcRects(size, top_h, left_w, nr, nc, top, left)

NextLayout == CalcRectsCall

SpecLayout == InitGeom /\ [][NextLayout]_vars

\* The corners of the bounding box of a set of rects: <<left, top, right, bottom>>.
SetMin(S) == CHOOSE m \in S : \A n \in S : m <= n

SetMax(S) == CHOOSE m \in S : \A n \in S : m >= n

BoundingBox(rects) ==
    <<SetMin({r.x : r \in rects}), SetMin({r.y : r \in rects}),
      SetMax({r.x + r.w : r \in rects}), SetMax({r.y + r.h : r \in rects})>>

(* C8: the parent rect of calc_rects, taken at the local origin, is the    *)
(* bounding box of the board rect and the two clues rects; each clues panel *)
(* spans the board's side and overlaps the board by exactly one outer       *)
(* border, with no gap.                                                     *)
C8_LayoutContainment ==
    call.op = "calc_rects" =>
        LET b == call.result[1]
            t == call.result[2]
            l == call.result[3]
            p == call.result[4]
        IN  /\ BoundingBox({b, t, l}) = <<0, 0, p.w, p.h>>
            /\ t.x = b.x /\ t.w = b.w
            /\ l.y = b.y /\ l.h = b.h
            /\ (t.y + t.h) - b.y = outer_bdr
            /\ (l.x + l.w) - b.x = outer_bdr

C8_Witness ==
    /\ call.op = "calc_rects"
    /\ call.args = <<7, 4, 4, LayoutMaxCells, 6, 0, LayoutMaxClues>>
    /\ call.result[4].w > call.result[1].w
    /\ call.result[4].h > call.result[1].h

-----------------------------------------------------------------------------
(* The zoom of the renderer called directly: any sequence of zoom(v) and    *)
(* initialize_surfaces, in windows whose optimum cell size runs from the     *)
(* floor of calc_optimum_cell_size upwards.                                  *)

\* The calls one run makes.
MaxZoomCalls == 4

\* The largest magnitude of the argument of zoom.
MaxZoomStep == 5

\* The windows are 20 + 4 * i wide, for i up to this bound, and one window is
\* narrower than the borders of the puzzle.
MaxScreenStep == 5

ZoomScreens ==
    {Screen(8, 32, 2)} \cup {Screen(20 + (4 * i), 32, 2) : i \in 0 .. MaxScreenStep}

optimum_cell_size ==
    calc_optimum_cell_size(nrows, ncols, cell_bdr, outer_bdr, sep_bdr, top_clues_nrows,
                           left_clues_ncols)

InitZoom ==
    /\ screen \in ZoomScreens
    /\ InitPuzzle(EditorPuzzle)
    /\ InitRenderer
    /\ mouse_pos = <<0, 0>>
    /\ mouse_pressed = NoButtons
    /\ event = NoEvent
    /\ nevents = 0
    /\ call = NoCall

CallZoom(v) ==
    /\ nevents < MaxZoomCalls
    /\ zoom(v)
    /\ call' = [op |-> "zoom", args |-> <<v>>, result |-> <<>>]
    /\ nevents' = nevents + 1
    /\ UNCHANGED <<screen, puzzleVars, cell_size, panVars, draftVars, toggleVars,
                   layoutVars, mouseVars, event>>

CallInitializeSurfaces ==
    /\ nevents < MaxZoomCalls
    /\ initialize_surfaces(cell_size_zoom_amt)
    /\ call' = [op |-> "initialize_surfaces", args |-> <<>>, result |-> <<>>]
    /\ nevents' = nevents + 1
    /\ UNCHANGED <<screen, puzzleVars, panVars, draftVars, toggleVars, mouseVars, event>>

ZoomCall == \E v \in -MaxZoomStep .. MaxZoomStep : CallZoom(v)

NextZoom == ZoomCall \/ CallInitializeSurfaces

SpecZoom == InitZoom /\ [][NextZoom]_vars

(* C4: whatever zoom(v) calls were made, with v positive, negative, odd or  *)
(* even, the cell size that initialize_surfaces leaves is even and at least  *)
(* MINIMUM_CELL_SIZE, for every optimum cell size from 2 upwards.            *)
C4_ZoomEvenness ==
    /\ optimum_cell_size >= 2
    /\ cell_size % 2 = 0
    /\ cell_size >= MINIMUM_CELL_SIZE

\* A zoom in below the minimum, in a window whose optimum cell size is odd:
\* the zoom amount is clamped to an odd number and the cell size made even.
C4_Witness ==
    /\ call.op = "initialize_surfaces"
    /\ nevents >= 2
    /\ optimum_cell_size = 7
    /\ cell_size_zoom_amt = MINIMUM_CELL_SIZE - 7
    /\ cell_size = MINIMUM_CELL_SIZE

-----------------------------------------------------------------------------
(* The draft of the renderer called directly: start_draft at any cell, then  *)
(* update_draft with any cell, on indices up to DraftMaxIdx.                  *)

\* The largest row index and column index handed to the draft operations.
DraftMaxIdx == 7

DraftIdxs == 0 .. DraftMaxIdx

\* args: <<row_idx, col_idx, symbol>>
CallStartDraft(row_idx, col_idx, symbol) ==
    /\ start_draft(row_idx, col_idx, symbol)
    /\ call' = [op |-> "start_draft", args |-> <<row_idx, col_idx, symbol>>,
                result |-> <<>>]
    /\ UNCHANGED <<screen, puzzleVars, zoomVars, panVars, toggleVars, layoutVars,
                   mouseVars, event, nevents>>

\* args: <<row_idx, col_idx>>.  update_draft reads the start cell, which only
\* start_draft sets.
CallUpdateDraft(row_idx, col_idx) ==
    /\ draft_start_cell # None
    /\ update_draft(row_idx, col_idx)
    /\ call' = [op |-> "update_draft", args |-> <<row_idx, col_idx>>, result |-> <<>>]
    /\ UNCHANGED <<screen, puzzleVars, zoomVars, panVars, toggleVars, layoutVars,
                   mouseVars, event, nevents>>

StartDraftCall == \E row_idx \in DraftIdxs, col_idx \in DraftIdxs :
                      CallStartDraft(row_idx, col_idx, ".")

UpdateDraftCall == \E row_idx \in DraftIdxs, col_idx \in DraftIdxs :
                       CallUpdateDraft(row_idx, col_idx)

NextDraft == StartDraftCall \/ UpdateDraftCall

SpecDraft == InitGeom /\ [][NextDraft]_vars

(* C7: update_draft(row, col) with start cell (r0, c0) sets draft_end_cell to *)
(* (r0, col) when |c0 - col| >= |r0 - row| and to (row, c0) otherwise, so a   *)
(* tie locks the draft to the horizontal axis.                               *)
C7_DominantAxis ==
    call.op = "update_draft" =>
        LET r0 == draft_start_cell[1]
            c0 == draft_start_cell[2]
            row == call.args[1]
            col == call.args[2]
        IN  /\ Abs(c0 - col) >= Abs(r0 - row) => draft_end_cell = <<r0, col>>
            /\ Abs(c0 - col) < Abs(r0 - row) => draft_end_cell = <<row, c0>>

\* The draft started at (5, 5) and moved to (7, 7) ends at (5, 7).
C7_Witness ==
    /\ call.op = "update_draft"
    /\ is_drafting
    /\ draft_start_cell = <<5, 5>>
    /\ call.args = <<7, 7>>
    /\ draft_end_cell = <<5, 7>>

-----------------------------------------------------------------------------
(* The editor: properties of the draft gesture under the event loop. *)

\* Cell c lies on the straight run from s to e, ends included.
InRun(c, s, e) ==
    \/ /\ s[1] = e[1] /\ c[1] = s[1]
       /\ Min(s[2], e[2]) <= c[2] /\ c[2] <= Max(s[2], e[2])
    \/ /\ s[2] = e[2] /\ c[2] = s[2]
       /\ Min(s[1], e[1]) <= c[1] /\ c[1] <= Max(s[1], e[1])

\* The on-screen rect of board cell c, and the pointer being over it.
ScreenCellRect(c) ==
    LET r == board_cell_rect(c[1], c[2], cell_size)
    IN  Rect(get_actual_board_rect.x + r.x, get_actual_board_rect.y + r.y, r.w, r.h)

OverCell(c) == collidepoint(ScreenCellRect(c), mouse_pos[1], mouse_pos[2])

Dispatched(type, b) == event'.type = type /\ event'.arg = <<b>>

(* C5: when the primary button is released during a draft with start cell S  *)
(* and end cell E, exactly the cells of the straight run from S to E get the *)
(* draft symbol and every other board cell keeps its symbol.                 *)
C5_CommitOnRelease ==
    [][(Dispatched("MOUSEBUTTONUP", "lmb") /\ is_drafting) =>
           \A c \in DOMAIN board :
               board'[c] = IF InRun(c, draft_start_cell, draft_end_cell)
                           THEN draft_symbol
                           ELSE board[c]]_vars

\* Pressed on the blank cell (0, 0), dragged to (0, 2), released.
C5_Witness ==
    /\ event = [type |-> "MOUSEBUTTONUP", arg |-> <<"lmb">>]
    /\ nevents = 3
    /\ draft_start_cell = <<0, 0>>
    /\ draft_end_cell = <<0, 2>>
    /\ \A c \in DOMAIN board : board[c] = IF c[1] = 0 THEN "." ELSE " "

(* C6: in every reachable state in which a draft is active, draft_end_cell   *)
(* shares its row or its column with draft_start_cell.                       *)
C6_AxisAligned ==
    is_drafting =>
        \/ draft_end_cell[1] = draft_start_cell[1]
        \/ draft_end_cell[2] = draft_start_cell[2]

\* The pointer was moved to a cell diagonal to the start cell.
C6_Witness ==
    /\ is_drafting
    /\ event.type = "MOUSEMOTION"
    /\ draft_start_cell = <<0, 0>>
    /\ OverCell(<<1, 2>>)
    /\ draft_end_cell = <<0, 2>>

Successor(symbol) ==
    IF symbol = " " THEN "." ELSE IF symbol = "." THEN "x" ELSE " "

StartsDraftAt(c) ==
    /\ is_drafting'
    /\ draft_start_cell' = c
    /\ draft_end_cell' = c
    /\ draft_symbol' = Successor(board[c])

(* C10: a primary-button press over a valid board cell starts a draft whose *)
(* start and end cell are the clicked cell and whose symbol is the           *)
(* successor, in the cycle Blank -> Filled -> Crossed -> Blank, of the       *)
(* cell's committed symbol.                                                  *)
C10_PressStartsDraft ==
    [][\A c \in DOMAIN board :
           (Dispatched("MOUSEBUTTONDOWN", "lmb") /\ OverCell(c)) => StartsDraftAt(c)]_vars

\* What handle_mouse_down does with such a press: the draft starts when the
\* secondary button is up, and no draft starts when it is held.
PressStartsDraftUnlessChord ==
    [][\A c \in DOMAIN board :
           (Dispatched("MOUSEBUTTONDOWN", "lmb") /\ OverCell(c)) =>
               IF mouse_pressed.rmb THEN ~is_drafting' ELSE StartsDraftAt(c)]_vars

(* C11: the board cells are mutated only by committing a draft: a step of  *)
(* the event loop that changes a board cell dispatches the release of the   *)
(* primary button while a draft is active; button-down (the cancel input    *)
(* included), pointer-move, wheel, and the start, update and end of a pan   *)
(* leave every board cell unchanged.                                        *)
C11_OnlyCommitMutates ==
    [][board' # board => (Dispatched("MOUSEBUTTONUP", "lmb") /\ is_drafting)]_vars

\* A pan was started, a draft started over it, the pan ended by the release of
\* the middle button with the board still blank, and the draft then committed.
C11_Witness ==
    /\ event = [type |-> "MOUSEBUTTONUP", arg |-> <<"lmb">>]
    /\ nevents = 4
    /\ ~mouse_pressed.mmb
    /\ pan_orig_coord = None
    /\ board[<<0, 0>>] = "."
    /\ \A c \in DOMAIN board : c # <<0, 0>> => board[c] = " "

(* C12: when a draft ends, by the commit on the release of the primary      *)
(* button or by the cancel input, the transient draft state is cleared:     *)
(* is_drafting is false, draft_symbol is Blank and draft_start_cell and     *)
(* draft_end_cell are both None.                                            *)
C12_DraftStateCleared ==
    [][(is_drafting /\ ~is_drafting') =>
           /\ draft_symbol' = " "
           /\ draft_start_cell' = None
           /\ draft_end_cell' = None]_vars

\* What end_draft leaves: the draft symbol is Blank and the two cells are kept.
DraftEndKeepsCells ==
    [][(is_drafting /\ ~is_drafting') =>
           /\ draft_symbol' = " "
           /\ draft_start_pt' = "None"
           /\ draft_start_cell' = draft_start_cell
           /\ draft_end_cell' = draft_end_cell]_vars

-----------------------------------------------------------------------------
(* Puzzle construction called directly.  A clue grid is given by the length *)
(* of each of its rows (the numbers in it are never read), or is not given. *)

\* The largest nrows and ncols handed to the constructor.
PuzzleMaxDim == 2

\* The largest number of rows of a clue grid and the longest row.
PuzzleMaxGrid == 2

NoGrid == [given |-> FALSE, rows |-> <<>>]

Grid(rows) == [given |-> TRUE, rows |-> rows]

PuzzleGrids ==
    {NoGrid} \cup {Grid(rows) : rows \in UNION {[1 .. n -> 0 .. PuzzleMaxGrid] :
                                                  n \in 0 .. PuzzleMaxGrid}}

\* Puzzle.__is_2d_grid_rectangular
is_2d_grid_rectangular_first_row(rows) == ~(Len(rows) = 0 \/ rows[1] = 0)

is_2d_grid_rectangular(rows) ==
    IF Len(rows) = 0 \/ rows[1] = 0
    THEN FALSE
    ELSE \A row_idx \in 2 .. Len(rows) : rows[row_idx] = rows[1]

\* Puzzle.__init__: the ValueError raised, or the Puzzle built.
Puzzle(p_nrows, p_ncols, top_clues, left_clues) ==
    LET raised == [raised |-> TRUE, nrows |-> 0, ncols |-> 0, board |-> <<>>,
                   top_clues_ticks |-> <<>>, left_clues_ticks |-> <<>>]
    IN  IF p_nrows <= 0 \/ p_ncols <= 0 THEN raised
        ELSE IF top_clues.given
                /\ (Len(top_clues.rows) <= 0 \/ top_clues.rows[1] # p_ncols) THEN raised
        ELSE IF top_clues.given /\ ~is_2d_grid_rectangular(top_clues.rows) THEN raised
        ELSE IF left_clues.given
                /\ (Len(left_clues.rows) # p_nrows \/ left_clues.rows[1] <= 0) THEN raised
        ELSE IF left_clues.given /\ ~is_2d_grid_rectangular(left_clues.rows) THEN raised
        ELSE LET top_nrows == IF top_clues.given THEN Len(top_clues.rows) ELSE 0
                 top_ncols == IF top_clues.given THEN top_clues.rows[1] ELSE 0
                 left_nrows == IF left_clues.given THEN Len(left_clues.rows) ELSE 0
                 left_ncols == IF left_clues.given THEN left_clues.rows[1] ELSE 0
             IN  [raised |-> FALSE, nrows |-> p_nrows, ncols |-> p_ncols,
                  board |-> [r \in 1 .. p_nrows |-> [c \in 1 .. p_ncols |-> " "]],
                  top_clues_ticks |->
                      [r \in 1 .. top_nrows |-> [c \in 1 .. top_ncols |-> FALSE]],
                  left_clues_ticks |->
                      [r \in 1 .. left_nrows |-> [c \in 1 .. left_ncols |-> FALSE]]]

\* args: <<nrows, ncols, top_clues, left_clues>>
CallPuzzle(p_nrows, p_ncols, top_clues, left_clues) ==
    /\ call' = [op |-> "Puzzle", args |-> <<p_nrows, p_ncols, top_clues, left_clues>>,
                result |-> Puzzle(p_nrows, p_ncols, top_clues, left_clues)]
    /\ UNCHANGED <<screen, puzzleVars, rendererVars, mouseVars, event, nevents>>

PuzzleCall ==
    /\ call.op = "none"
    /\ \E p_nrows \in -1 .. PuzzleMaxDim, p_ncols \in -1 .. PuzzleMaxDim :
           \E top_clues \in PuzzleGrids, left_clues \in PuzzleGrids :
               CallPuzzle(p_nrows, p_ncols, top_clues, left_clues)

NextPuzzle == PuzzleCall

SpecPuzzle == InitGeom /\ [][NextPuzzle]_vars

\* A supplied clue grid is empty, or ragged.
EmptyGrid(g) == g.given /\ Len(g.rows) = 0

RaggedGrid(g) == g.given /\ \E i \in DOMAIN g.rows : g.rows[i] # g.rows[1]

\* Tick matrix ticks has the shape of clue grid g and holds only False.
TicksMatch(ticks, g) ==
    /\ Len(ticks) = Len(g.rows)
    /\ \A r \in DOMAIN ticks :
           /\ Len(ticks[r]) = g.rows[r]
           /\ \A c \in DOMAIN ticks[r] : ticks[r][c] = FALSE

(* C13: Puzzle construction with nrows <= 0 or ncols <= 0, or with a        *)
(* supplied top or left clue grid that is empty, ragged, or mismatched with *)
(* the board (a top clue row whose length is not ncols, a left clue grid    *)
(* whose row count is not nrows) raises ValueError; every Puzzle built has  *)
(* nrows >= 1, ncols >= 1 and tick matrices of the shape of their clue      *)
(* grids, all False.                                                        *)
C13_ConstructionValidates ==
    call.op = "Puzzle" =>
        LET n == call.args[1]
            m == call.args[2]
            top == call.args[3]
            left == call.args[4]
            built == call.result
            invalid ==
                \/ n <= 0 \/ m <= 0
                \/ EmptyGrid(top) \/ RaggedGrid(top) \/ EmptyGrid(left) \/ RaggedGrid(left)
                \/ top.given /\ \E i \in DOMAIN top.rows : top.rows[i] # m
                \/ left.given /\ Len(left.rows) # n
        IN  /\ invalid => built.raised
            /\ ~built.raised =>
                   /\ built.nrows >= 1 /\ built.ncols >= 1
                   /\ TicksMatch(built.top_clues_ticks, top)
                   /\ TicksMatch(built.left_clues_ticks, left)

\* A top clue grid whose first row matches the board and whose second row is
\* shorter is refused.
C13_Witness ==
    /\ call.op = "Puzzle"
    /\ call.args = <<2, 2, Grid(<<2, 1>>), Grid(<<1, 1>>)>>
    /\ call.result.raised

-----------------------------------------------------------------------------
(* The accessors of the puzzle called directly, on every board of a 2 x 2   *)
(* puzzle, with indices inside the board and up to AccessMargin outside it. *)

\* How far outside the board the indices handed to the accessors go.
AccessMargin == 2

AccessPuzzle == [nrows |-> 2, ncols |-> 2, top_clues_nrows |-> 1, left_clues_ncols |-> 1]

\* self.board[row][col] as Python indexes lists: a negative index counts from
\* the end, and an index outside -len .. len - 1 raises IndexError.
board_symbol(row, col) ==
    IF (-nrows <= row /\ row < nrows) /\ (-ncols <= col /\ col < ncols)
    THEN board[<<IF row < 0 THEN row + nrows ELSE row,
                 IF col < 0 THEN col + ncols ELSE col>>]
    ELSE "IndexError"

\* The bounds test of the three accessors.
out_of_bounds_upper_only(row, col) == row >= nrows \/ col >= ncols

out_of_bounds(row, col) == row < 0 \/ row >= nrows \/ col < 0 \/ col >= ncols

\* What an accessor returns: raised tells an IndexError, value the boolean.
Returned(symbol, value) == [raised |-> symbol = "IndexError", value |-> value]

\* Puzzle.is_filled
is_filled(row, col) ==
    IF out_of_bounds(row, col) THEN Returned(" ", FALSE)
    ELSE Returned(board_symbol(row, col), board_symbol(row, col) = ".")

\* Puzzle.is_crossed
is_crossed(row, col) ==
    IF out_of_bounds(row, col) THEN Returned(" ", FALSE)
    ELSE Returned(board_symbol(row, col), board_symbol(row, col) = "x")

\* Puzzle.is_blank
is_blank(row, col) ==
    IF out_of_bounds(row, col) THEN Returned(" ", FALSE)
    ELSE Returned(board_symbol(row, col),
                  board_symbol(row, col) # "." /\ board_symbol(row, col) # "x")

Accessors == {"is_filled", "is_crossed", "is_blank"}

\* args: <<row, col>>
CallAccessor(name, row, col) ==
    /\ call' = [op |-> name, args |-> <<row, col>>,
                result |-> CASE name = "is_filled" -> is_filled(row, col)
                             [] name = "is_crossed" -> is_crossed(row, col)
                             [] name = "is_blank" -> is_blank(row, col)]
    /\ UNCHANGED <<screen, puzzleVars, rendererVars, mouseVars, event, nevents>>

AccessorCall ==
    /\ call.op = "none"
    /\ \E name \in Accessors :
           \E row \in -AccessMargin .. (nrows - 1 + AccessMargin),
              col \in -AccessMargin .. (ncols - 1 + AccessMargin) :
               CallAccessor(name, row, col)

\* The boards are those the editor can leave: any symbol in any cell.
InitAccess ==
    /\ screen = EditorScreen
    /\ nrows = AccessPuzzle.nrows
    /\ ncols = AccessPuzzle.ncols
    /\ top_clues_nrows = AccessPuzzle.top_clues_nrows
    /\ left_clues_ncols = AccessPuzzle.left_clues_ncols
    /\ board \in [Cells(AccessPuzzle.nrows, AccessPuzzle.ncols) -> Symbols]
    /\ top_clues_ticks = [c \in Cells(AccessPuzzle.top_clues_nrows, AccessPuzzle.ncols)
                              |-> FALSE]
    /\ InitRenderer
    /\ mouse_pos = <<0, 0>>
    /\ mouse_pressed = NoButtons
    /\ event = NoEvent
    /\ nevents = 0
    /\ call = NoCall

NextAccess == AccessorCall

SpecAccess == InitAccess /\ [][NextAccess]_vars

(* C14: for every (row, col) with row < 0, row >= nrows, col < 0 or         *)
(* col >= ncols, is_filled, is_crossed and is_blank each return False, do   *)
(* not raise, and leave the board unchanged.                                *)
C14_OutOfBoundsIsFalse ==
    [][(call'.op \in Accessors
            /\ (call'.args[1] < 0 \/ call'.args[1] >= nrows
                    \/ call'.args[2] < 0 \/ call'.args[2] >= ncols)) =>
           /\ ~call'.result.raised
           /\ call'.result.value = FALSE
           /\ board' = board]_vars

\* is_blank(-1, 0) on a board whose last row starts with a blank cell, which
\* is the cell Python's board[-1][0] names.
C14_Witness ==
    /\ call.op = "is_blank"
    /\ call.args = <<-1, 0>>
    /\ board[<<nrows - 1, 0>>] = " "
    /\ call.result = [raised |-> FALSE, value |-> FALSE]

-----------------------------------------------------------------------------
(* The sizing functions called directly: calc_optimum_cell_size and         *)
(* calc_rects for every board and clue panel the bounds allow, in windows   *)
(* from narrower than the borders of the puzzle to several cells wide.      *)

\* The largest number of board rows and of board columns.
SizingMaxCells == 10

\* The largest number of top clue rows and of left clue columns.
SizingMaxClues == 2

SizingScreens == {Screen(w, h, 2) : w \in {6, 29, 90}, h \in {11, 64}}

InitSizing ==
    /\ screen \in SizingScreens
    /\ InitPuzzle(EditorPuzzle)
    /\ InitRenderer
    /\ mouse_pos = <<0, 0>>
    /\ mouse_pressed = NoButtons
    /\ event = NoEvent
    /\ nevents = 0
    /\ call = NoCall

\* args: <<board_nrows, board_ncols, top_clues_nrows, left_clues_ncols>>
CallCalcOptimumCellSize(nr, nc, top, left) ==
    /\ call' = [op |-> "calc_optimum_cell_size", args |-> <<nr, nc, top, left>>,
                result |-> calc_optimum_cell_size(nr, nc, cell_bdr, outer_bdr, sep_bdr,
                                                  top, left)]
    /\ UNCHANGED <<screen, puzzleVars, rendererVars, mouseVars, event, nevents>>

CalcOptimumCellSizeCall ==
    /\ call.op = "none"
    /\ \E nr \in 1 .. SizingMaxCells, nc \in 1 .. SizingMaxCells :
           \E top \in 0 .. SizingMaxClues, left \in 0 .. SizingMaxClues :
               CallCalcOptimumCellSize(nr, nc, top, left)

SizingCalcRectsCall ==
    /\ call.op = "none"
    /\ \E size \in LayoutCellSizes :
           \E nr \in 1 .. SizingMaxCells, nc \in 1 .. SizingMaxCells :
               \E top \in 0 .. SizingMaxClues, left \in 0 .. SizingMaxClues :
                   CallCalcRects(size, size, size, nr, nc, top, left)

\* Renderer.initialize_surfaces entered with zoom amount 0 for a puzzle of the
\* given sizes.  args: <<board_nrows, board_ncols, top_clues_nrows,
\* left_clues_ncols, optimum_cell_size>>; result: <<cell size, zoom amount,
\* parent rect>> as the method leaves them.
CallInitializeSurfacesOn(nr, nc, top, left) ==
    /\ LET s == surfaces_on(screen, [nrows |-> nr, ncols |-> nc, top_clues_nrows |-> top, left_clues_ncols |-> left], 0)
       IN  call' = [op |-> "initialize_surfaces",
                    args |-> <<nr, nc, top, left,
                               calc_optimum_cell_size(nr, nc, cell_bdr, outer_bdr, sep_bdr,
                                                      top, left)>>,
                    result |-> <<s.cell_size, s.cell_size_zoom_amt, s.parent_rect>>]
    /\ UNCHANGED <<screen, puzzleVars, rendererVars, mouseVars, event, nevents>>

SizingInitializeSurfacesCall ==
    /\ call.op = "none"
    /\ \E nr \in 1 .. SizingMaxCells, nc \in 1 .. SizingMaxCells :
           \E top \in 0 .. SizingMaxClues, left \in 0 .. SizingMaxClues :
               CallInitializeSurfacesOn(nr, nc, top, left)

NextSizing == CalcOptimumCellSizeCall \/ SizingCalcRectsCall \/ SizingInitializeSurfacesCall

SpecSizing == InitSizing /\ [][NextSizing]_vars

\* The usable extents of the window.
UsableWidth == screen.SCREEN_WIDTH - (screen.SCREEN_LEFT_MARGIN + screen.SCREEN_RIGHT_MARGIN)

UsableHeight ==
    screen.SCREEN_HEIGHT - (screen.SCREEN_TOP_MARGIN + screen.SCREEN_BOTTOM_MARGIN)

\* floor(a / b) for b > 0.
Floor(a, b) == a \div b

(* C15: calc_optimum_cell_size returns max(2, floor(min(candidateWidth,     *)
(* candidateHeight))), candidateWidth being (usableWidth - the horizontal   *)
(* borders) / (board columns + left clue columns) and candidateHeight       *)
(* likewise; the result is an integer >= 2, also in windows smaller than    *)
(* the borders.  The floor of the smaller quotient is the smaller floor.    *)
C15_OptimumCellSize ==
    call.op = "calc_optimum_cell_size" =>
        LET nr == call.args[1]
            nc == call.args[2]
            top == call.args[3]
            left == call.args[4]
            border_h == board_border_thick(nc, cell_bdr, outer_bdr, sep_bdr)
                            + optimum_clues_border_thick(left, cell_bdr, outer_bdr)
            border_v == board_border_thick(nr, cell_bdr, outer_bdr, sep_bdr)
                            + optimum_clues_border_thick(top, cell_bdr, outer_bdr)
            floor_w == Floor(UsableWidth - border_h, nc + left)
            floor_h == Floor(UsableHeight - border_v, nr + top)
        IN  /\ call.result = Max(2, Min(floor_w, floor_h))
            /\ call.result >= 2

\* A window narrower than the borders of the puzzle, where the quotient is
\* negative and not whole, and tall enough for a height candidate above 2.
C15_Witness ==
    /\ call.op = "calc_optimum_cell_size"
    /\ call.args = <<3, 4, 1, 1>>
    /\ UsableWidth = 2
    /\ UsableHeight = 60
    /\ call.result = 2

\* The border total of a board axis of N cells with G extra separator runs.
BorderTotal(N, G) == ((N - 1) * cell_bdr) + (2 * outer_bdr) + (G * (sep_bdr - cell_bdr))

\* The complete groups of 5 cells in N cells, and the boundaries between
\* groups of 5 inside N cells.
CompleteGroups(N) == N \div 5

GroupBoundaries(N) == (N - 1) \div 5

\* Both sizing functions use BorderTotal(N, G(N)) for each board axis:
\* calc_rects in the extents of the board rect, calc_optimum_cell_size in
\* the cell size it returns.
UsesBorderTotal(G(_)) ==
    /\ call.op = "calc_rects" =>
           LET size == call.args[1]
               nr == call.args[4]
               nc == call.args[5]
           IN  /\ call.result[1].w = (nc * size) + BorderTotal(nc, G(nc))
               /\ call.result[1].h = (nr * size) + BorderTotal(nr, G(nr))
    /\ call.op = "calc_optimum_cell_size" =>
           LET nr == call.args[1]
               nc == call.args[2]
               top == call.args[3]
               left == call.args[4]
               border_h == BorderTotal(nc, G(nc)) + ((left - 1) * cell_bdr) + outer_bdr
               border_v == BorderTotal(nr, G(nr)) + ((top - 1) * cell_bdr) + outer_bdr
           IN  call.result = Min(Max(2, TruncDiv(UsableWidth - border_h, nc + left)),
                                 Max(2, TruncDiv(UsableHeight - border_v, nr + top)))

(* C16: for a board axis of N cells the border total used by both           *)
(* calc_optimum_cell_size and calc_rects is (N-1)*cellBorder                *)
(* + 2*outerBorder + G*(separatorBorder - cellBorder), G being the number   *)
(* of complete groups of 5 cells in N, floor(N/5).                          *)
C16_BorderTotalPerCompleteGroup == UsesBorderTotal(CompleteGroups)

(* C16 amended: the same border total with G the number of boundaries       *)
(* between groups of 5 cells inside the axis, floor((N-1)/5): an axis of    *)
(* exactly 5 cells has no separator run, an axis of 6 to 10 cells has one.  *)
C16_BorderTotalPerGroupBoundary == UsesBorderTotal(GroupBoundaries)

\* A board of 5 rows and 10 columns at cell size 7: no separator run in the
\* height, one in the width.
C16_Witness ==
    /\ call.op = "calc_rects"
    /\ call.args = <<7, 7, 7, 5, 10, 1, 1>>
    /\ call.result[1].w = 70 + 9 + 4 + 1
    /\ call.result[1].h = 35 + 4 + 4

(* C17: when the puzzle has 0 top clue rows (0 left clue columns),           *)
(* calc_rects returns a top clues rect of height 0 (a left clues rect of    *)
(* width 0) and the board rect's y (x) inside the parent rect is 0; no rect *)
(* returned by calc_rects has a negative width or height.                   *)
C17_ZeroCluesZeroPanel ==
    call.op = "calc_rects" =>
        LET b == call.result[1]
            t == call.result[2]
            l == call.result[3]
        IN  /\ call.args[6] = 0 => (t.h = 0 /\ b.y = 0)
            /\ call.args[7] = 0 => (l.w = 0 /\ b.x = 0)
            /\ \A i \in 1 .. 4 : call.result[i].w >= 0 /\ call.result[i].h >= 0

\* What calc_rects returns for 0 clue rows or columns: a panel as thick as
\* two outer borders less one cell border, the board one outer border less
\* than that from the parent's edge, and no negative extent.
ZeroCluesBorderPanel ==
    call.op = "calc_rects" =>
        LET b == call.result[1]
            t == call.result[2]
            l == call.result[3]
            thick == (2 * outer_bdr) - cell_bdr
        IN  /\ call.args[6] = 0 => (t.h = thick /\ b.y = thick - outer_bdr)
            /\ call.args[7] = 0 => (l.w = thick /\ b.x = thick - outer_bdr)
            /\ \A i \in 1 .. 4 : call.result[i].w >= 0 /\ call.result[i].h >= 0

-----------------------------------------------------------------------------
(* The pan of the renderer called directly: gestures of start_drag, any     *)
(* number of update_drag and end_drag, one after the other.                 *)

\* The calls one run makes.
MaxPanCalls == 5

\* The pointer positions are <<x, y>> with x up to this bound and y either 0
\* or three times it.
PanMax == 2

PanPoints == {<<x, y>> : x \in 0 .. PanMax, y \in {0, 3 * PanMax}}

\* args: <<the pointer position p0>>, result: <<the pan delta d0 at the start>>
CallStartDrag(p) ==
    /\ nevents < MaxPanCalls
    /\ ~is_dragging
    /\ start_drag(p[1], p[2])
    /\ call' = [op |-> "start_drag", args |-> <<p>>, result |-> <<pan_delta>>]
    /\ nevents' = nevents + 1
    /\ UNCHANGED <<screen, puzzleVars, zoomVars, draftVars, toggleVars, layoutVars,
                   mouseVars, event>>

\* args: <<the pointer position p, and p0 and d0 of the gesture's start_drag>>
CallUpdateDrag(p) ==
    /\ nevents < MaxPanCalls
    /\ is_dragging
    /\ update_drag(p[1], p[2])
    /\ call' = [op |-> "update_drag",
                args |-> IF call.op = "start_drag"
                         THEN <<p, call.args[1], call.result[1]>>
                         ELSE <<p, call.args[2], call.args[3]>>,
                result |-> <<>>]
    /\ nevents' = nevents + 1
    /\ UNCHANGED <<screen, puzzleVars, zoomVars, draftVars, toggleVars, layoutVars,
                   mouseVars, event>>

CallEndDrag ==
    /\ nevents < MaxPanCalls
    /\ is_dragging
    /\ end_drag
    /\ call' = [op |-> "end_drag", args |-> <<>>, result |-> <<>>]
    /\ nevents' = nevents + 1
    /\ UNCHANGED <<screen, puzzleVars, zoomVars, draftVars, toggleVars, layoutVars,
                   mouseVars, event>>

StartDragCall == \E p \in PanPoints : CallStartDrag(p)

UpdateDragCall == \E p \in PanPoints : CallUpdateDrag(p)

NextPan == StartDragCall \/ UpdateDragCall \/ CallEndDrag

SpecPan == InitGeom /\ [][NextPan]_vars

(* C18: during a pan gesture started by start_drag(p0) with pan delta d0,   *)
(* every update_drag(p) sets pan_delta to d0 + (p - p0), whatever updates   *)
(* came before; the delta is not clamped; start_drag and end_drag leave it  *)
(* unchanged, so the next gesture starts from the delta the last one left.  *)
C18_PanDelta ==
    [][/\ call'.op = "update_drag" =>
              LET p == call'.args[1]
                  p0 == call'.args[2]
                  d0 == call'.args[3]
              IN  pan_delta' = <<d0[1] + (p[1] - p0[1]), d0[2] + (p[2] - p0[2])>>
       /\ call'.op = "start_drag" => (pan_delta' = pan_delta /\ call'.result[1] = pan_delta)
       /\ call'.op = "end_drag" => pan_delta' = pan_delta]_vars

\* The second gesture adds its displacement to the delta the first one left.
C18_Witness ==
    /\ call.op = "update_drag"
    /\ nevents = 5
    /\ call.args = <<<<2, 0>>, <<0, 6>>, <<1, -6>>>>
    /\ pan_delta = <<3, -12>>
    /\ is_dragging

-----------------------------------------------------------------------------
(* The clue-tick gesture: the editor's event loop with the pointer starting  *)
(* over the top-clue panel and the tick flags in any state earlier gestures  *)
(* can have left them in.                                                    *)

ToggleButtons == {"lmb", "rmb"}

TogglePoints ==
    {PointOfTopClue(c[1], c[2]) :
        c \in Cells(EditorPuzzle.top_clues_nrows, EditorPuzzle.ncols)}
        \cup {PointOfCell(0, 0)}

InitToggle ==
    /\ screen = EditorScreen
    /\ nrows = EditorPuzzle.nrows
    /\ ncols = EditorPuzzle.ncols
    /\ top_clues_nrows = EditorPuzzle.top_clues_nrows
    /\ left_clues_ncols = EditorPuzzle.left_clues_ncols
    /\ board = [c \in Cells(EditorPuzzle.nrows, EditorPuzzle.ncols) |-> " "]
    /\ top_clues_ticks \in
           [Cells(EditorPuzzle.top_clues_nrows, EditorPuzzle.ncols) -> BOOLEAN]
    /\ InitRenderer
    /\ mouse_pos = PointOfTopClue(0, 0)
    /\ mouse_pressed = NoButtons
    /\ event = NoEvent
    /\ nevents = 0
    /\ call = NoCall

NextToggle ==
    \/ \E b \in ToggleButtons : MouseButtonDown(b)
    \/ \E b \in ToggleButtons : MouseButtonUp(b)
    \/ \E p \in TogglePoints : MouseMotion(p)

SpecToggle == InitToggle /\ [][NextToggle]_vars

\* The pointer is over the valid top-clue cell c, outside the board.
OverTopClue(c) ==
    /\ ~collidepoint(get_actual_board_rect, mouse_pos[1], mouse_pos[2])
    /\ collidepoint(get_actual_top_clues_rect, mouse_pos[1], mouse_pos[2])
    /\ screen_coord_to_top_clues_idx(mouse_pos[1], mouse_pos[2]) = c
    /\ is_top_clues_cell_idx_valid(c[1], c[2])

-----------------------------------------------------------------------------
(* The draft state as get_draft_cell_indices reads it: the renderer's public *)
(* draft fields hold any combination of None and board cells, and the        *)
(* primary button is held so that a release can follow.                      *)

DraftStateCells == {None} \cup Cells(EditorPuzzle.nrows, EditorPuzzle.ncols)

InitDraftState ==
    /\ screen = EditorScreen
    /\ InitPuzzle(EditorPuzzle)
    /\ pan_delta = <<0, 0>>
    /\ pan_orig_coord = None
    /\ pan_orig_delta = None
    /\ is_dragging = FALSE
    /\ draft_start_cell \in DraftStateCells
    /\ draft_end_cell \in DraftStateCells
    /\ draft_start_pt = "unset"
    /\ draft_symbol \in Symbols
    /\ is_drafting \in BOOLEAN
    /\ toggle_clue_start_cell = None
    /\ toggle_clue_end_cell = None
    /\ clue_tick_flag = TRUE
    /\ is_toggling_top_clues = FALSE
    /\ cell_size = EditorSurfaces.cell_size
    /\ cell_size_zoom_amt = 0
    /\ board_rect = EditorSurfaces.board_rect
    /\ top_clues_rect = EditorSurfaces.top_clues_rect
    /\ left_clues_rect = EditorSurfaces.left_clues_rect
    /\ parent_rect = EditorSurfaces.parent_rect
    /\ cell_rect_memo = EditorSurfaces.cell_rect_memo
    /\ mouse_pos = PointOfCell(0, 0)
    /\ mouse_pressed = [NoButtons EXCEPT !["lmb"] = TRUE]
    /\ event = NoEvent
    /\ nevents = 0
    /\ call = NoCall

\* args: <<is_drafting, draft_start_cell, draft_end_cell>>; result: <<cells>>.
CallGetDraftCellIndices ==
    /\ call' = [op |-> "get_draft_cell_indices",
                args |-> <<is_drafting, draft_start_cell, draft_end_cell>>,
                result |-> <<get_draft_cell_indices>>]
    /\ UNCHANGED <<screen, puzzleVars, rendererVars, mouseVars, event, nevents>>

GetDraftCellIndicesCall ==
    /\ call.op = "none"
    /\ CallGetDraftCellIndices

NextDraftState ==
    \/ GetDraftCellIndicesCall
    \/ MouseButtonUp("lmb")

SpecDraftState == InitDraftState /\ [][NextDraftState]_vars

\* A draft start or end cell is None, or the two share neither row nor column.
InconsistentDraft ==
    \/ draft_start_cell = None
    \/ draft_end_cell = None
    \/ /\ draft_start_cell[1] # draft_end_cell[1]
       /\ draft_start_cell[2] # draft_end_cell[2]

\* C20: when draft_start_cell or draft_end_cell is None, or the two share
\* neither row nor column, get_draft_cell_indices returns the empty list, and
\* a primary release in that state leaves every board cell unchanged.
C20_InconsistentDraftNoOp ==
    [][InconsistentDraft =>
          /\ call'.op = "get_draft_cell_indices" /\ call.op = "none"
                 => call'.result = <<(<<>>)>>
          /\ Dispatched("MOUSEBUTTONUP", "lmb") => board' = board]_vars

\* A release while drafting from (0, 0) to (1, 2): the call returned no cells
\* and the release ended the draft with the board still blank.
C20_Witness ==
    /\ call.op = "get_draft_cell_indices"
    /\ call.args = <<TRUE, <<0, 0>>, <<1, 2>>>>
    /\ call.result = <<(<<>>)>>
    /\ event = [type |-> "MOUSEBUTTONUP", arg |-> <<"lmb">>]
    /\ draft_start_pt = "None"
    /\ ~is_drafting
    /\ \A c \in DOMAIN board : board[c] = " "

-----------------------------------------------------------------------------
(* The editor's event loop: properties of the board and of the draft.        *)

\* C21: in every state the event loop reaches from a freshly constructed
\* puzzle, every board cell holds Blank, Filled or Crossed.
C21_ValidSymbols == \A c \in DOMAIN board : board[c] \in Symbols

\* A cell that went Blank -> Filled -> Crossed by two clicks, next to a blank one.
C21_Witness ==
    /\ board[<<0, 0>>] = "x"
    /\ board[<<0, 1>>] = " "
    /\ event = [type |-> "MOUSEBUTTONUP", arg |-> <<"lmb">>]
    /\ nevents = 4

-----------------------------------------------------------------------------
(* The inverse mapping on the two axes and on negative offsets.              *)

\* The last call probed the board-local point (t, t).
OnDiagonal ==
    /\ call.op = "screen_to_board_coords"
    /\ call.args[1] - call.args[3] = call.args[2] - call.args[4]

\* C22: for every integer offset t, negative, zero or positive, the row index
\* computed from board-local y = t equals the column index computed from
\* board-local x = t.
C22_AxesSymmetric == OnDiagonal => call.result[1] = call.result[2]

\* The two axes agree on every offset t >= 0.
AxesSymmetricFromZero ==
    (OnDiagonal /\ call.args[1] - call.args[3] >= 0) => call.result[1] = call.result[2]

\* C24: a coordinate left of or above the cell area never resolves to a valid
\* cell: the inverse mapping returns a negative column for every board-local
\* x < 0 and a negative row for every board-local y < 0, and the bounds check
\* rejects the index.
C24_NegativeStaysOutside ==
    call.op = "screen_to_board_coords" =>
        LET board_x == call.args[1] - call.args[3]
            board_y == call.args[2] - call.args[4]
        IN  /\ board_x < 0 => call.result[2] < 0
            /\ board_y < 0 => call.result[1] < 0
            /\ (board_x < 0 \/ board_y < 0)
                   => ~is_board_cell_idx_valid(call.result[1], call.result[2])

\* One pixel above the cell area, on the left edge of column 0, at cell size 4:
\* the column is valid and the row is not.
C24_Witness ==
    /\ call.op = "screen_to_board_coords"
    /\ call.args[1] - call.args[3] = 0
    /\ call.args[2] - call.args[4] = -1
    /\ call.args[5] = 4
    /\ call.result[2] = 0
    /\ call.result[1] < 0

-----------------------------------------------------------------------------
(* The cell-rect memo under zoom, layout recomputation, puzzle load and      *)
(* cell-rect queries, called directly in any order.                          *)

MemoPuzzles ==
    {EditorPuzzle, [nrows |-> 6, ncols |-> 1, top_clues_nrows |-> 2, left_clues_ncols |-> 1]}

\* The cells queried: one of every puzzle, and one beyond the first separator.
MemoCells == {<<0, 0>>, <<1, 2>>, <<5, 0>>}

\* args: <<row_idx, col_idx>>; result: the rect returned.
CallGetBoardCellRect(row_idx, col_idx) ==
    /\ nevents < MaxZoomCalls
    /\ LET r == get_board_cell_rect(cell_rect_memo, row_idx, col_idx, cell_size)
       IN  /\ call' = [op |-> "get_board_cell_rect", args |-> <<row_idx, col_idx>>,
                       result |-> r[1]]
           /\ cell_rect_memo' = r[2]
    /\ nevents' = nevents + 1
    /\ UNCHANGED <<screen, puzzleVars, zoomVars, panVars, draftVars, toggleVars, board_rect,
                   top_clues_rect, left_clues_rect, parent_rect, mouseVars, event>>

\* Renderer.initialize_puzzle with a freshly constructed puzzle p.
CallInitializePuzzle(p) ==
    /\ nevents < MaxZoomCalls
    /\ nrows' = p.nrows
    /\ ncols' = p.ncols
    /\ top_clues_nrows' = p.top_clues_nrows
    /\ left_clues_ncols' = p.left_clues_ncols
    /\ board' = [c \in Cells(p.nrows, p.ncols) |-> " "]
    /\ top_clues_ticks' = [c \in Cells(p.top_clues_nrows, p.ncols) |-> FALSE]
    /\ LET s == surfaces_on(screen, p, cell_size_zoom_amt)
       IN  /\ cell_size_zoom_amt' = s.cell_size_zoom_amt
           /\ cell_size' = s.cell_size
           /\ board_rect' = s.board_rect
           /\ top_clues_rect' = s.top_clues_rect
           /\ left_clues_rect' = s.left_clues_rect
           /\ parent_rect' = s.parent_rect
           /\ cell_rect_memo' = memo_after(cleared_memo(cell_rect_memo), Cells(p.nrows, p.ncols), s.cell_size)
    /\ call' = [op |-> "initialize_puzzle", args |-> <<p>>, result |-> <<>>]
    /\ nevents' = nevents + 1
    /\ UNCHANGED <<screen, panVars, draftVars, toggleVars, mouseVars, event>>

GetBoardCellRectCall == \E c \in MemoCells : CallGetBoardCellRect(c[1], c[2])

InitializePuzzleCall == \E p \in MemoPuzzles : CallInitializePuzzle(p)

MemoZoomCall == \E v \in {-2, 2} : CallZoom(v)

NextMemo ==
    \/ MemoZoomCall
    \/ CallInitializeSurfaces
    \/ InitializePuzzleCall
    \/ GetBoardCellRectCall

SpecMemo == InitGeom /\ [][NextMemo]_vars

\* C23: in every state reached by zoom, layout recomputation, puzzle load and
\* cell-rect queries in any order, each rectangle stored in the cell-rect memo,
\* and each rectangle a query returns, equals the rectangle get_cell_rect
\* computes for that (row, col) under the current cell size and borders.
C23_MemoConsistent ==
    /\ \A k \in DOMAIN cell_rect_memo :
           cell_rect_memo[k] = get_cell_rect(k[1], k[2], cell_size, cell_size, cell_bdr,
                                             sep_bdr, <<outer_bdr, outer_bdr, 0, 0>>)
    /\ call.op = "get_board_cell_rect"
           => call.result = get_cell_rect(call.args[1], call.args[2], cell_size, cell_size,
                                          cell_bdr, sep_bdr, <<outer_bdr, outer_bdr, 0, 0>>)

\* A cell outside the puzzle was memoised, the cell size then changed by a zoom
\* and a layout, and the same cell was queried again.
C23_Witness ==
    /\ call.op = "get_board_cell_rect"
    /\ call.args = <<5, 0>>
    /\ nevents = 4
    /\ cell_size # EditorSurfaces.cell_size
    /\ nrows = EditorPuzzle.nrows
    /\ <<5, 0>> \in DOMAIN cell_rect_memo

\* The screen point (x, y) lies inside the rect of board cell (row, col) at
\* cell size size, for the board whose rect has its corner at the call's origin.
InCellRect(x, y, row, col, size, rect_x, rect_y) ==
    LET r == get_cell_rect(row, col, size, size, cell_bdr, sep_bdr, None)
    IN  collidepoint(Rect(rect_x + r.x, rect_y + r.y, r.w, r.h), x, y)

\* C25: every pixel of the rect of a valid cell (row, col), not only its
\* centre, maps back to (row, col), and lies in the rect of no other cell.
C25_EveryPixelRoundTrip ==
    call.op = "pixel_to_board_coords" =>
        /\ call.result = <<call.args[1], call.args[2]>>
        /\ \A row \in 0 .. GeomMaxIdx, col \in 0 .. GeomMaxIdx :
               InCellRect(call.args[4], call.args[5], row, col, call.args[3],
                          call.args[6], call.args[7])
                   <=> <<row, col>> = <<call.args[1], call.args[2]>>

\* The last pixel of cell (4, 9) at cell size 41, next to the separators.
C25_Witness ==
    /\ call.op = "pixel_to_board_coords"
    /\ call.args[1] = 4
    /\ call.args[2] = 9
    /\ call.args[3] = 41
    /\ call.args[4] = -9 + outer_bdr + cell_offset(9, 41, cell_bdr, sep_bdr) + 40
    /\ call.args[5] = 13 + outer_bdr + cell_offset(4, 41, cell_bdr, sep_bdr) + 40
    /\ call.result = <<4, 9>>

\* The cancel input: a button-down event that finds primary and secondary held.
CancelInput ==
    /\ event'.type = "MOUSEBUTTONDOWN"
    /\ mouse_pressed'.lmb
    /\ mouse_pressed'.rmb

\* C26: while a draft is active, no input event other than the primary-button
\* release and the cancel input changes draft_start_cell or draft_symbol; in
\* particular a button-down of another button while the primary is held does
\* not.
C26_DraftStartFrame ==
    [][(is_drafting /\ ~Dispatched("MOUSEBUTTONUP", "lmb") /\ ~CancelInput)
           => /\ draft_start_cell' = draft_start_cell
              /\ draft_symbol' = draft_symbol]_vars

\* Motion, wheel and the release of another button leave the start cell and the
\* symbol of an active draft alone.
DraftStartFrameExceptButtonDown ==
    [][(is_drafting /\ ~Dispatched("MOUSEBUTTONUP", "lmb")
            /\ event'.type # "MOUSEBUTTONDOWN")
           => /\ draft_start_cell' = draft_start_cell
              /\ draft_symbol' = draft_symbol]_vars

\* C27: in every reachable state with an active draft, draft_start_cell and
\* draft_end_cell are both inside the grid, also with the pointer outside the
\* board, and every index get_draft_cell_indices produces is a valid board
\* index.
C27_DraftInsideGrid ==
    is_drafting =>
        /\ draft_start_cell \in Cells(nrows, ncols)
        /\ draft_end_cell \in Cells(nrows, ncols)
        /\ \A c \in Range(get_draft_cell_indices) : c \in DOMAIN board

\* A draft from (0, 0) to (0, 2) whose pointer was then dragged to the corner
\* of the window, outside the board.
C27_Witness ==
    /\ is_drafting
    /\ mouse_pressed.lmb
    /\ mouse_pos = <<0, 0>>
    /\ draft_start_cell = <<0, 0>>
    /\ draft_end_cell = <<0, 2>>
    /\ ~collidepoint(get_actual_board_rect, mouse_pos[1], mouse_pos[2])

-----------------------------------------------------------------------------
(* Cell addressing under pan: pan gestures as above, and between gestures    *)
(* Renderer.screen_coord_to_cell_idx called for a point of the window.       *)

\* args: <<the screen point p, the pan delta d>>; result: <<row, col>>.
CallScreenCoordToCellIdx(p) ==
    /\ nevents < MaxPanCalls
    /\ ~is_dragging
    /\ call' = [op |-> "screen_coord_to_cell_idx", args |-> <<p, pan_delta>>,
                result |-> screen_coord_to_cell_idx(p[1], p[2])]
    /\ nevents' = nevents + 1
    /\ UNCHANGED <<screen, puzzleVars, rendererVars, mouseVars, event>>

ScreenCoordToCellIdxCall == \E p \in Points : CallScreenCoordToCellIdx(p)

NextAddress == NextPan \/ ScreenCoordToCellIdxCall

SpecAddress == InitGeom /\ [][NextAddress]_vars

\* The index of screen point q when the pan delta is (0, 0): the inverse
\* mapping on the board rect placed by the parent rect alone.
IdxAtPanZero(q) ==
    screen_to_board_coords(q[1], q[2],
                           inflate(Rect(parent_rect.x + board_rect.x,
                                        parent_rect.y + board_rect.y,
                                        board_rect.w, board_rect.h),
                                   outer_bdr * (-2), outer_bdr * (-2)),
                           cell_size, cell_bdr, sep_bdr)

\* C28: the cell index screen_coord_to_cell_idx returns for the point p under
\* pan delta d equals the index it returns for p - d under pan delta (0, 0),
\* at the same cell size.
C28_PanEquivariance ==
    call.op = "screen_coord_to_cell_idx" =>
        LET p == call.args[1]
            d == call.args[2]
        IN  call.result = IdxAtPanZero(<<p[1] - d[1], p[2] - d[2]>>)

\* A pan that moved the board so far that the point over a cell now resolves
\* to another valid cell.
C28_Witness ==
    /\ call.op = "screen_coord_to_cell_idx"
    /\ call.args[2] # <<0, 0>>
    /\ call.args[2][1] # 0
    /\ call.result \in Cells(nrows, ncols)
    /\ IdxAtPanZero(call.args[1]) \in Cells(nrows, ncols)
    /\ call.result # IdxAtPanZero(call.args[1])

-----------------------------------------------------------------------------
(* The layout of initialize_surfaces in the window (specification            *)
(* SpecSizing).                                                              *)

\* The candidate cell sizes of the last initialize_surfaces call before the
\* minimum of 2 is applied, from the borders calc_optimum_cell_size adds up.
CandidateWidth ==
    LET nc == call.args[2]
        left == call.args[4]
        border_h == BorderTotal(nc, GroupBoundaries(nc)) + ((left - 1) * cell_bdr) + outer_bdr
    IN  TruncDiv(UsableWidth - border_h, nc + left)

CandidateHeight ==
    LET nr == call.args[1]
        top == call.args[3]
        border_v == BorderTotal(nr, GroupBoundaries(nr)) + ((top - 1) * cell_bdr) + outer_bdr
    IN  TruncDiv(UsableHeight - border_v, nr + top)

\* The parent rect of the last initialize_surfaces call fits the usable window.
ParentFits ==
    /\ call.result[3].w <= UsableWidth
    /\ call.result[3].h <= UsableHeight

\* C29: entered with zoom offset 0, whenever neither candidate cell size is
\* raised by the minimum of 2, the parent rect initialize_surfaces computes
\* is no wider than the window minus its horizontal margins and no higher
\* than the window minus its vertical margins, for every grid and clue panel.
C29_FitsViewport ==
    (call.op = "initialize_surfaces" /\ CandidateWidth >= 2 /\ CandidateHeight >= 2)
        => ParentFits

\* C29 amended: the same whenever the optimum cell size is at least
\* MINIMUM_CELL_SIZE, so that the zoom offset is still 0 after the clamp; the
\* cell size is then the optimum made even by decrementing.
C29_FitsViewportFromMinimum ==
    (call.op = "initialize_surfaces" /\ CandidateWidth >= 2 /\ CandidateHeight >= 2
         /\ call.args[5] >= MINIMUM_CELL_SIZE)
        => /\ call.result[2] = 0
           /\ call.result[1] = call.args[5] - (call.args[5] % 2)
           /\ ParentFits

\* A 7x7 board with one clue row and column in a 90x64 window: the optimum 5
\* is made even by decrementing and the parent rect fits with room to spare.
C29_Witness ==
    /\ call.op = "initialize_surfaces"
    /\ call.args = <<7, 7, 1, 1, 5>>
    /\ UsableHeight = 60
    /\ CandidateHeight = 5
    /\ call.result[1] = 4
    /\ call.result[2] = 0
    /\ call.result[3].h = 45

-----------------------------------------------------------------------------
(* The zoom clamp over several zoom steps (specification SpecZoom).          *)

ClampedTwice ==
    /\ call.op = "initialize_surfaces"
    /\ nevents = 4
    /\ optimum_cell_size = 7
    /\ cell_size_zoom_amt = MINIMUM_CELL_SIZE - 7
    /\ cell_size = MINIMUM_CELL_SIZE

=============================================================================
